---- MODULE Spec2Model ----
(***************************************************************************)
(* Model of the embedded-insurance API: the quote handler (compliance,     *)
(* risk, pricing, routing), the bind handler with its capacity reserve,    *)
(* policy, ledger and idempotency writes, and the compliance rule engine.  *)
(*                                                                         *)
(* Numbers: money is in cents, multipliers are in hundredths (110 = 1.10), *)
(* risk scores in ten-thousandths.  Products of multipliers are exact      *)
(* rationals <<num, den>> kept in lowest terms.                            *)
(***************************************************************************)
EXTENDS Integers, Sequences, FiniteSets, TLC

(***************************************************************************)
(* Bounds of the model.                                                    *)
(***************************************************************************)
MaxLimit == 1
MaxMonth == 2
MaxRequests == 3
MaxRules == 3

\* A field whose value is Python's None (schemas.py: Optional[int] = None).
NoneVal == -1

Min(a, b) == IF a <= b THEN a ELSE b
Max(a, b) == IF a >= b THEN a ELSE b

RECURSIVE GCD(_, _)
GCD(a, b) == IF b = 0 THEN a ELSE GCD(b, a % b)

\* Exact rational arithmetic on <<num, den>>, den > 0, num >= 0.
RNorm(r) == LET g == GCD(r[1], r[2]) IN IF g = 0 THEN <<0, 1>> ELSE <<r[1] \div g, r[2] \div g>>
RMul(r, s) == LET a == RNorm(<<r[1], s[2]>>)
                  b == RNorm(<<s[1], r[2]>>)
              IN  RNorm(<<a[1] * b[1], a[2] * b[2]>>)
Pct(n) == RNorm(<<n, 100>>)

\* Python's round(): to the nearest integer, ties to the even one.
RoundHalfEven(r) ==
    LET q == r[1] \div r[2]
        m == r[1] % r[2]
    IN  IF 2 * m < r[2] THEN q
        ELSE IF 2 * m > r[2] THEN q + 1
        ELSE IF q % 2 = 0 THEN q ELSE q + 1

(***************************************************************************)
(* Reference data (config/seed.json, config/compliance.yaml).              *)
(***************************************************************************)
Carriers == {"c1", "c2"}
\* The order in which SELECT * FROM carrier returns the rows.
CarrierOrder == <<"c1", "c2">>
Products == {"shipping", "ppi"}
Months == 1..MaxMonth

Appetite ==
    [c1 |-> [shipping |-> [excluded_states |-> {}, excluded_categories |-> {},
                           max_declared_value |-> 100000, max_risk_band |-> "E"],
             ppi      |-> [excluded_states |-> {}, excluded_job_categories |-> {},
                           max_term_months |-> 24, max_risk_band |-> "E"]],
     c2 |-> [shipping |-> [excluded_states |-> {"AK"},
                           excluded_categories |-> {"jewelry_high_value"},
                           max_declared_value |-> 50000, max_risk_band |-> "C"],
             ppi      |-> [excluded_states |-> {}, excluded_job_categories |-> {"seasonal_temp"},
                           max_term_months |-> 12, max_risk_band |-> "C"]]]

\* carrier.pricing_curve_ref
CurveRef == [c1 |-> "curve_a", c2 |-> "curve_b"]

\* pricing.<product>.base_rate_per_100_value by curve, in hundredths.
BaseRate ==
    [shipping |-> [curve_a |-> 55, curve_b |-> 60],
     ppi      |-> [curve_a |-> 80, curve_b |-> 85]]

\* Multiplier tables of the pricing curves, in hundredths.
CategoryMultiplier == [standard |-> 100, jewelry_high_value |-> 150]
DestinationMultiplier == [low |-> 100, medium |-> 120, high |-> 150]
ServiceLevelMultiplier == [ground |-> 100, expedited |-> 110, overnight |-> 125]
TermMultiplier == ("<=6" :> 90) @@ ("7-12" :> 100) @@ ("13-18" :> 110) @@ ("19-24" :> 125)
BandMultiplier == [A |-> 95, B |-> 100, C |-> 110, D |-> 120, E |-> 130]

\* The authenticated partner.
Partner == [markup_pct |-> 10, products |-> {"shipping", "ppi"}]

(***************************************************************************)
(* Compliance engine (services/compliance.py).                             *)
(*                                                                         *)
(* A dict is a record over all its possible keys; AbsentInt / AbsentStr    *)
(* mark a key the dict does not hold, NoneVal a key holding None.            *)
(***************************************************************************)
AbsentInt == -2
AbsentStr == ""

NumericCriteria == {"min_age", "min_tenure_months", "declared_value_greater_than",
                    "age_less_than", "tenure_months_less_than", "term_months_greater_than"}
KnownCriteria == {"state_in", "item_category_in"} \cup NumericCriteria

NoThresholds == [n \in NumericCriteria |-> 0]

\* A rule of compliance.yaml.  has = the keys of its criteria dict.
MkRule(id, product, kind, has, states, cats, thr) ==
    [id |-> id, applies_to |-> product, type |-> kind, has |-> has,
     state_in |-> states, item_category_in |-> cats, thr |-> thr,
     job_category_in |-> {}]

\* A rule whose criteria dict also holds the key job_category_in, a key
\* _evaluate_criteria has no branch for.
MkJobRule(id, product, kind, has, states, jobs) ==
    [MkRule(id, product, kind, has, states, {}, NoThresholds) EXCEPT !.job_category_in = jobs]

\* The rule file the tests of the repository run against.
ConfiguredRules ==
    << MkRule("ban_ppi_states", "ppi", "block", {"state_in"}, {"GA", "VT"}, {}, NoThresholds),
       MkRule("min_age_ppi", "ppi", "block", {"min_age"}, {}, {},
              [NoThresholds EXCEPT !["min_age"] = 18]),
       MkRule("min_tenure_ppi", "ppi", "block", {"min_tenure_months"}, {}, {},
              [NoThresholds EXCEPT !["min_tenure_months"] = 6]),
       MkRule("ppi_disclosure", "ppi", "disclosure", {}, {}, {}, NoThresholds),
       MkRule("shipping_disclosure", "shipping", "disclosure", {}, {}, {}, NoThresholds),
       MkRule("fragile_shipping_ak_hi", "shipping", "block", {"state_in", "item_category_in"},
              {"AK", "HI"}, {"jewelry_high_value"}, NoThresholds) >>

\* context = {"product_code": ..., **request_data}; context.update(policyholder):
\* a key of the policyholder dict replaces the request's, also when it holds None.
MergeField(rdv, phv, absent) == IF phv # absent THEN phv ELSE rdv

BuildContext(product_code, request_data, policyholder) ==
    [product_code  |-> product_code,
     state         |-> policyholder.state,
     item_category |-> request_data.item_category,
     declared_value |-> request_data.declared_value,
     term_months   |-> request_data.term_months,
     job_category  |-> request_data.job_category,
     age           |-> MergeField(request_data.age, policyholder.age, AbsentInt),
     tenure_months |-> MergeField(request_data.tenure_months, policyholder.tenure_months, AbsentInt)]

\* context.get(key, 0)
GetNum(v) == IF v = AbsentInt THEN 0 ELSE v

\* The context field each numeric criterion reads.
CriterionField(name, context) ==
    CASE name \in {"min_age", "age_less_than"} -> context.age
      [] name \in {"min_tenure_months", "tenure_months_less_than"} -> context.tenure_months
      [] name = "declared_value_greater_than" -> context.declared_value
      [] OTHER -> context.term_months

\* Comparing None with a number raises TypeError.
CriterionRaises(name, context) == GetNum(CriterionField(name, context)) = NoneVal

CriterionResult(rule, name, context) ==
    CASE name = "state_in" -> context.state \in rule.state_in
      [] name = "item_category_in" -> context.item_category \in rule.item_category_in
      [] name \in {"declared_value_greater_than", "term_months_greater_than"} ->
            GetNum(CriterionField(name, context)) > rule.thr[name]
      [] OTHER -> GetNum(CriterionField(name, context)) < rule.thr[name]

\* _evaluate_criteria: False on an empty dict, False when a comparison raises,
\* else at least one known criterion and all of them hold.
EvaluateCriteria(rule, context) ==
    LET named == rule.has \cap KnownCriteria IN
    IF rule.has = {} THEN FALSE
    ELSE IF \E n \in named \cap NumericCriteria : CriterionRaises(n, context) THEN FALSE
    ELSE named # {} /\ \A n \in named : CriterionResult(rule, n, context)

\* The test of one rule in the loop of evaluate_rules.
RuleApplies(rule, product_code, context) ==
    /\ rule.applies_to = product_code
    /\ (rule.has = {} \/ EvaluateCriteria(rule, context))

\* The decision taken from the last applicable rule alone.
DecisionOfLastRule(decision, rule) == IF rule.type = "block" THEN "block" ELSE "allow"

\* The decision after a rule that applies.
DecisionAfter(decision, rule) == IF rule.type = "block" THEN "block" ELSE decision

\* One iteration of the loop of evaluate_rules on the running result.
ApplyRule(acc, rule, product_code, context) ==
    IF ~RuleApplies(rule, product_code, context) THEN acc
    ELSE [decision |-> DecisionAfter(acc.decision, rule),
          disclosures |-> IF rule.type \in {"disclosure", "block"}
                          THEN Append(acc.disclosures, rule.id) ELSE acc.disclosures,
          rules_applied |-> Append(acc.rules_applied, rule.id)]

\* A loop that an error in a rule's criteria ends: the rules after it are
\* not evaluated.
RECURSIVE EvalLoopStopsOnError(_, _, _, _, _)
EvalLoopStopsOnError(ruleSeq, i, acc, product_code, context) ==
    IF i > Len(ruleSeq) THEN acc
    ELSE IF /\ ruleSeq[i].applies_to = product_code
            /\ \E n \in ruleSeq[i].has \cap NumericCriteria : CriterionRaises(n, context)
         THEN acc
         ELSE EvalLoopStopsOnError(ruleSeq, i + 1,
                                   ApplyRule(acc, ruleSeq[i], product_code, context),
                                   product_code, context)

RECURSIVE EvalLoop(_, _, _, _, _)
EvalLoop(ruleSeq, i, acc, product_code, context) ==
    IF i > Len(ruleSeq) THEN acc
    ELSE EvalLoop(ruleSeq, i + 1, ApplyRule(acc, ruleSeq[i], product_code, context),
                  product_code, context)

\* evaluate_rules(product_code, request_data, policyholder); a disclosure is
\* named by the id of the rule whose message it is.
EvaluateRules(ruleSeq, product_code, request_data, policyholder) ==
    EvalLoop(ruleSeq, 1,
             [decision |-> "allow", disclosures |-> <<>>, rules_applied |-> <<>>],
             product_code, BuildContext(product_code, request_data, policyholder))

(***************************************************************************)
(* Risk scoring (services/risk.py).  Scores are in ten-thousandths: the    *)
(* code rounds them to four decimal places.                                *)
(***************************************************************************)
Lookup(table, key, default) == IF key \in DOMAIN table THEN table[key] ELSE default

\* calculate_shipping_risk_score
ShippingRiskScore(rd) ==
    LET dest == Lookup([low |-> 0, medium |-> 5000, high |-> 10000], rd.destination_risk, 0)
        svc  == Lookup([ground |-> 2000, expedited |-> 1000, overnight |-> 0], rd.service_level, 2000)
        cat  == IF rd.item_category \in {"electronics_high_value", "jewelry_high_value"}
                THEN 3000 ELSE 0
    IN  RoundHalfEven(<<rd.declared_value + 5 * (dest + svc + cat), 5>>)

\* calculate_ppi_risk_score
PpiRiskScore(rd, policyholder) ==
    LET agePen == IF policyholder.age < 25 THEN 3000 ELSE 0
        tenPen == IF policyholder.tenure_months < 6 THEN 3000 ELSE 0
    IN  RoundHalfEven(<<3 * (2 * rd.order_value + agePen + tenPen) + 500 * rd.term_months, 3>>)

\* The band thresholds compared with <=, so that a score on a threshold
\* stays in the lower band.
MapRiskScoreToBandInclusive(score) ==
    IF score <= 4000 THEN <<"A", 90>>
    ELSE IF score <= 8000 THEN <<"B", 100>>
    ELSE IF score <= 12000 THEN <<"C", 110>>
    ELSE IF score <= 16000 THEN <<"D", 125>>
    ELSE <<"E", 140>>

\* map_risk_score_to_band: <<band, multiplier in hundredths>>
MapRiskScoreToBand(score) ==
    IF score < 4000 THEN <<"A", 90>>
    ELSE IF score < 8000 THEN <<"B", 100>>
    ELSE IF score < 12000 THEN <<"C", 110>>
    ELSE IF score < 16000 THEN <<"D", 125>>
    ELSE <<"E", 140>>

\* calculate_risk_assessment
RiskAssessment(product_code, rd, policyholder) ==
    LET score == IF product_code = "shipping" THEN ShippingRiskScore(rd)
                 ELSE PpiRiskScore(rd, policyholder)
        bm == MapRiskScoreToBand(score)
    IN  [risk_score |-> score, risk_band |-> bm[1], risk_multiplier |-> bm[2]]

(***************************************************************************)
(* Pricing (cache.py, services/pricing.py).                                *)
(***************************************************************************)
\* ConfigCache.get_pricing_curve_for_carrier: the base rate of the carrier's
\* curve (0.55 when the curve has none) and the product's multiplier tables.
PricingCurve(carrier_id, product_code) ==
    IF product_code = "shipping"
    THEN [base_rate |-> Lookup(BaseRate[product_code], CurveRef[carrier_id], 55),
          category_multiplier |-> CategoryMultiplier,
          destination_multiplier |-> DestinationMultiplier,
          service_level_multiplier |-> ServiceLevelMultiplier]
    ELSE [base_rate |-> Lookup(BaseRate[product_code], CurveRef[carrier_id], 55)]

\* A table a curve does not have: pricing_curve.get(name, {}).
EmptyTable == [key \in {} |-> 100]

\* pricing_curve.get(table, {}).get(key, pricing_curve.get(alt, {}).get(key, 1.0)),
\* in hundredths.
CurveEntry(curve, table, alt, key) ==
    Lookup(Lookup(curve, table, EmptyTable), key,
           Lookup(Lookup(curve, alt, EmptyTable), key, 100))

\* base_premium_dollars of calculate_shipping_premium (line 44), exact.
ShippingBaseDollars(rd, curve) ==
    RMul(RMul(RMul(RMul(<<rd.declared_value, 100>>, Pct(Lookup(curve, "base_rate", 55))),
                   Pct(CurveEntry(curve, "category_multiplier", "category_multipliers",
                                  rd.item_category))),
              Pct(CurveEntry(curve, "destination_multiplier", "destination_multipliers",
                             rd.destination_risk))),
         Pct(CurveEntry(curve, "service_level_multiplier", "service_multipliers",
                        rd.service_level)))

\* total_premium_dollars * 100 of calculate_shipping_premium (lines 47, 51),
\* exact.
ShippingTotalCents(rd, risk_multiplier, markup_pct, curve) ==
    RMul(RMul(RMul(ShippingBaseDollars(rd, curve), Pct(risk_multiplier)),
              Pct(100 + markup_pct)),
         <<100, 1>>)

\* The total premium without the partner markup.
ShippingPremiumWithoutMarkup(rd, risk_multiplier, markup_pct, curve) ==
    RoundHalfEven(RMul(RMul(ShippingBaseDollars(rd, curve), Pct(risk_multiplier)), <<100, 1>>))

\* calculate_shipping_premium: total premium in cents
ShippingPremium(rd, risk_multiplier, markup_pct, curve) ==
    RoundHalfEven(ShippingTotalCents(rd, risk_multiplier, markup_pct, curve))

\* calculate_ppi_premium: total premium in cents
PpiPremium(rd, risk_multiplier, markup_pct, curve, risk_band) ==
    LET term == IF rd.term_months <= 6 THEN Lookup(TermMultiplier, "<=6", 90)
                ELSE IF rd.term_months <= 12 THEN Lookup(TermMultiplier, "7-12", 100)
                ELSE IF rd.term_months <= 18 THEN Lookup(TermMultiplier, "13-18", 110)
                ELSE Lookup(TermMultiplier, "19-24", 125)
        band == Lookup(BandMultiplier, risk_band, 100)
        age  == IF rd.age < 25 THEN 120 ELSE IF rd.age < 35 THEN 100
                ELSE IF rd.age < 50 THEN 95 ELSE 110
        ten  == IF rd.tenure_months < 6 THEN 130 ELSE IF rd.tenure_months < 12 THEN 110 ELSE 100
        base == RMul(RMul(RMul(RMul(RMul(<<rd.order_value, 100>>, Pct(curve.base_rate)),
                                        Pct(term)), Pct(band)), Pct(age)), Pct(ten))
        total == RMul(RMul(base, Pct(risk_multiplier)), Pct(100 + markup_pct))
    IN  RoundHalfEven(RMul(total, <<100, 1>>))

\* calculate_shipping_premium: breakdown["base"], the base premium in cents.
ShippingBase(rd, curve) == RoundHalfEven(RMul(ShippingBaseDollars(rd, curve), <<100, 1>>))

\* calculate_ppi_premium: breakdown["base"], the base premium in cents.
PpiBase(rd, curve, risk_band) ==
    LET term == IF rd.term_months <= 6 THEN Lookup(TermMultiplier, "<=6", 90)
                ELSE IF rd.term_months <= 12 THEN Lookup(TermMultiplier, "7-12", 100)
                ELSE IF rd.term_months <= 18 THEN Lookup(TermMultiplier, "13-18", 110)
                ELSE Lookup(TermMultiplier, "19-24", 125)
        band == Lookup(BandMultiplier, risk_band, 100)
        age  == IF rd.age < 25 THEN 120 ELSE IF rd.age < 35 THEN 100
                ELSE IF rd.age < 50 THEN 95 ELSE 110
        ten  == IF rd.tenure_months < 6 THEN 130 ELSE IF rd.tenure_months < 12 THEN 110 ELSE 100
    IN  RoundHalfEven(RMul(RMul(RMul(RMul(RMul(RMul(<<rd.order_value, 100>>, Pct(curve.base_rate)),
                                               Pct(term)), Pct(band)), Pct(age)), Pct(ten)),
                           <<100, 1>>))

\* The breakdown dict returned with the premium: its carrier-dependent entry
\* "base" and the entries risk_mult and partner_markup_pct.
Breakdown(product_code, rd, risk_multiplier, markup_pct, curve, risk_band) ==
    [base |-> IF product_code = "shipping" THEN ShippingBase(rd, curve)
              ELSE PpiBase(rd, curve, risk_band),
     risk_mult |-> risk_multiplier, partner_markup_pct |-> markup_pct]

\* calculate_premium
CalculatePremium(product_code, rd, risk_multiplier, markup_pct, curve, risk_band) ==
    IF product_code = "shipping"
    THEN ShippingPremium(rd, risk_multiplier, markup_pct, curve)
    ELSE PpiPremium(rd, risk_multiplier, markup_pct, curve, risk_band)

(***************************************************************************)
(* Capacity counters (services/routing.py).  The carriercapacity table is  *)
(* the sequence of its rows in id order; nothing makes (carrier, month)    *)
(* unique.                                                                 *)
(***************************************************************************)
\* query(CarrierCapacity).filter(carrier_id, as_of_month).first(): the id of
\* the first matching row, 0 when there is none.
FirstRow(rows, carrier_id, as_of_month) ==
    LET hits == {i \in 1..Len(rows) : rows[i].carrier_id = carrier_id
                                      /\ rows[i].as_of_month = as_of_month}
    IN  IF hits = {} THEN 0 ELSE CHOOSE i \in hits : \A j \in hits : i <= j

\* get_carrier_capacities_for_month: the row's count, else the monthly limit.
CarrierCapacities(rows, limits, as_of_month) ==
    [c \in Carriers |->
        LET r == FirstRow(rows, c, as_of_month)
        IN  IF r = 0 THEN limits[c] ELSE rows[r].remaining_count]

\* The reserve without its positive-count test.
ReserveNeverRefused(rows, row) == FALSE

\* decrement_carrier_capacity, the branch taken on the row that was read:
\* an existing row whose count is not positive makes the call return False.
ReserveRefused(rows, row) == row # 0 /\ ~(rows[row].remaining_count > 0)

\* decrement_carrier_capacity, no row found: the row it adds.
NewCapacityRow(carrier_id, as_of_month, monthly_limit) ==
    [carrier_id |-> carrier_id, as_of_month |-> as_of_month,
     remaining_count |-> monthly_limit - 1]

\* decrement_carrier_capacity, row found: capacity_record.remaining_count -= 1
\* on the object loaded by the query; the flush writes that value to the row.
DecrementedCount(loaded_count) == loaded_count - 1

\* The table after the commit of decrement_carrier_capacity, given the row id
\* and the count its query had loaded.
ReserveCommit(rows, carrier_id, as_of_month, row, loaded_count, monthly_limit) ==
    IF row = 0
    THEN Append(rows, NewCapacityRow(carrier_id, as_of_month, monthly_limit))
    ELSE [rows EXCEPT ![row].remaining_count = DecrementedCount(loaded_count)]

(***************************************************************************)
(* Carrier selection of the quote handler (routers/quotes.py).             *)
(***************************************************************************)
BandOrder == [A |-> 1, B |-> 2, C |-> 3, D |-> 4, E |-> 5]

\* The appetite checks of create_quote for one carrier.
AppetiteOk(carrier_id, product_code, rd, policyholder, risk_band) ==
    LET pa == Appetite[carrier_id][product_code] IN
    /\ policyholder.state \notin pa.excluded_states
    /\ product_code = "shipping" =>
          /\ rd.item_category \notin pa.excluded_categories
          /\ ~(rd.declared_value > pa.max_declared_value)
    /\ product_code = "ppi" =>
          /\ ~(rd.term_months > pa.max_term_months)
          /\ ~(Lookup(BandOrder, risk_band, 5) > Lookup(BandOrder, pa.max_risk_band, 5))
          /\ rd.job_category \notin pa.excluded_job_categories

\* No capacity check: a carrier with nothing left stays eligible.
CapacityUnchecked(current_capacity) == TRUE

\* The capacity check of create_quote: current_capacity <= 0 rejects.
CapacityOk(current_capacity) == ~(current_capacity <= 0)

\* A margin with an expected loss of 1.20 of the premium times the risk
\* multiplier: it falls as the premium rises.
MarginAtLossRatio120(premium_cents, risk_multiplier) ==
    premium_cents * 1000 - premium_cents * 12 * risk_multiplier

\* expected_margin = premium - premium * 0.60 * risk_multiplier, in
\* thousandths of a cent.
ExpectedMargin(premium_cents, risk_multiplier) ==
    premium_cents * 1000 - premium_cents * 6 * risk_multiplier

\* The entry create_quote appends for a carrier that passed the checks.
Evaluation(carrier_id, product_code, rd, risk, capacity) ==
    LET premium == CalculatePremium(product_code, rd, risk.risk_multiplier,
                                    Partner.markup_pct,
                                    PricingCurve(carrier_id, product_code),
                                    risk.risk_band)
    IN  [carrier_id |-> carrier_id, premium_cents |-> premium,
         breakdown |-> Breakdown(product_code, rd, risk.risk_multiplier, Partner.markup_pct,
                                 PricingCurve(carrier_id, product_code), risk.risk_band),
         expected_margin |-> ExpectedMargin(premium, risk.risk_multiplier),
         capacity |-> capacity]

\* The loop of create_quote over carrier_list from position i.
RECURSIVE EligibleFrom(_, _, _, _, _, _)
EligibleFrom(i, product_code, rd, policyholder, risk, capacities) ==
    IF i > Len(CarrierOrder) THEN <<>>
    ELSE LET c == CarrierOrder[i]
             rest == EligibleFrom(i + 1, product_code, rd, policyholder, risk, capacities)
         IN  IF AppetiteOk(c, product_code, rd, policyholder, risk.risk_band)
                /\ CapacityOk(capacities[c])
             THEN <<Evaluation(c, product_code, rd, risk, capacities[c])>> \o rest
             ELSE rest

\* The sort by margin ascending: the lowest margin first.
SortsBeforeAscending(a, b) ==
    \/ a.expected_margin < b.expected_margin
    \/ a.expected_margin = b.expected_margin /\ a.premium_cents < b.premium_cents

\* The sort key (-expected_margin, premium_cents): a comes strictly before b.
SortsBefore(a, b) ==
    \/ a.expected_margin > b.expected_margin
    \/ a.expected_margin = b.expected_margin /\ a.premium_cents < b.premium_cents

\* eligible_carrier_evaluations.sort(...)[0]: list.sort is stable, so the
\* first entry is the earliest one no other entry sorts before.
SelectedIndex(evals) ==
    CHOOSE i \in 1..Len(evals) :
        \A j \in 1..Len(evals) :
            IF j < i THEN SortsBefore(evals[i], evals[j]) ELSE ~SortsBefore(evals[j], evals[i])

\* _check_appetite of services/routing.py on a flat appetite mapping; risk_band
\* is request_data.get("risk_band").
CheckAppetite(product_code, rd, policyholder, risk_band, appetite) ==
    /\ policyholder.state \notin Lookup(appetite, "excluded_states", {})
    /\ risk_band \notin Lookup(appetite, "excluded_risk_bands", {})
    /\ product_code = "shipping" =>
          /\ rd.item_category \notin Lookup(appetite, "excluded_categories", {})
          /\ "max_declared_value" \in DOMAIN appetite =>
                ~(rd.declared_value > appetite.max_declared_value)
    /\ product_code = "ppi" =>
          ("max_term_months" \in DOMAIN appetite => ~(rd.term_months > appetite.max_term_months))

\* The loop of route_to_carrier over carriers from position i.
RECURSIVE RouteEligibleFrom(_, _, _, _, _, _, _, _)
RouteEligibleFrom(i, product_code, rd, policyholder, risk_band, premium_cents, risk_multiplier, carrier_capacities) ==
    IF i > Len(CarrierOrder) THEN <<>>
    ELSE LET c == CarrierOrder[i]
             rest == RouteEligibleFrom(i + 1, product_code, rd, policyholder, risk_band,
                                       premium_cents, risk_multiplier, carrier_capacities)
         IN  IF CheckAppetite(product_code, rd, policyholder, risk_band,
                              Appetite[c][product_code])
                /\ ~(carrier_capacities[c] <= 0)
             THEN <<[carrier_id |-> c, premium_cents |-> premium_cents,
                     expected_margin |-> ExpectedMargin(premium_cents, risk_multiplier),
                     capacity |-> carrier_capacities[c]]>> \o rest
             ELSE rest

\* What route_to_carrier returns when no carrier is eligible.
NoCarrier == "None"

\* route_to_carrier: <<carrier_id, rationale>>, the rationale as the values
\* its text carries.
RouteToCarrier(product_code, rd, policyholder, risk_band, premium_cents, risk_multiplier, carrier_capacities) ==
    LET eligible == RouteEligibleFrom(1, product_code, rd, policyholder, risk_band,
                                      premium_cents, risk_multiplier, carrier_capacities)
    IN  IF eligible = <<>> THEN <<NoCarrier, <<>>>>
        ELSE LET selected == eligible[SelectedIndex(eligible)]
             IN  <<selected.carrier_id,
                   <<selected.carrier_id, selected.expected_margin, selected.premium_cents,
                     selected.capacity>>>>

(***************************************************************************)
(* Requests.                                                               *)
(***************************************************************************)
Workers == {"w1", "w2"}
NoKey == "none"
Keys == {"k1"}
QuotesPath == "/v1/quotes"
BindingsPath == "/v1/bindings"

MkShipping(value, category, dest_state) ==
    [product_code |-> "shipping", declared_value |-> value, item_category |-> category,
     destination_state |-> dest_state, destination_risk |-> "low", service_level |-> "ground",
     order_value |-> AbsentInt, term_months |-> AbsentInt, age |-> AbsentInt,
     tenure_months |-> AbsentInt, job_category |-> AbsentStr, state |-> AbsentStr]

MkPpi(value, term, age, tenure, state) ==
    [product_code |-> "ppi", declared_value |-> AbsentInt, item_category |-> AbsentStr,
     destination_state |-> AbsentStr, destination_risk |-> AbsentStr, service_level |-> AbsentStr,
     order_value |-> value, term_months |-> term, age |-> age,
     tenure_months |-> tenure, job_category |-> "full_time", state |-> state]

\* The bodies of POST /v1/quotes the model sends.
QuoteRequests ==
    { MkShipping(1000, "standard", "CA"),
      MkShipping(1000, "jewelry_high_value", "CA"),
      MkShipping(1000, "jewelry_high_value", "AK"),
      MkShipping(AbsentInt, "standard", "CA"),
      MkPpi(1000, 6, 30, 12, "CA"),
      MkPpi(1000, 6, 30, 12, "GA") }

\* The policyholder objects of POST /v1/bindings the model sends.
Policyholders ==
    { [state |-> "CA", age |-> 30, tenure_months |-> 12],
      [state |-> "AK", age |-> 30, tenure_months |-> 12],
      [state |-> "GA", age |-> 30, tenure_months |-> 12],
      [state |-> "CA", age |-> 17, tenure_months |-> 12],
      [state |-> "CA", age |-> NoneVal, tenure_months |-> 12] }

\* create_quote: the 400 answers for a missing required field.
QuoteFieldsPresent(req) ==
    IF req.product_code = "shipping"
    THEN /\ req.declared_value # AbsentInt /\ req.item_category # AbsentStr
         /\ req.destination_state # AbsentStr /\ req.destination_risk # AbsentStr
         /\ req.service_level # AbsentStr
    ELSE /\ req.order_value # AbsentInt /\ req.term_months # AbsentInt
         /\ req.age # AbsentInt /\ req.tenure_months # AbsentInt
         /\ req.job_category # AbsentStr /\ req.state # AbsentStr

\* create_quote: request_data, the dict stored as request_json.
RequestData(req) ==
    [declared_value |-> req.declared_value, item_category |-> req.item_category,
     destination_state |-> req.destination_state, destination_risk |-> req.destination_risk,
     service_level |-> req.service_level, order_value |-> req.order_value,
     term_months |-> req.term_months, age |-> req.age,
     tenure_months |-> req.tenure_months, job_category |-> req.job_category]

\* create_quote: the policyholder dict built from the request.
QuotePolicyholder(req) ==
    IF req.product_code = "shipping"
    THEN [state |-> req.destination_state, age |-> 30, tenure_months |-> 12]
    ELSE [state |-> req.state, age |-> req.age, tenure_months |-> req.tenure_months]

(***************************************************************************)
(* State.                                                                  *)
(***************************************************************************)
VARIABLES
    month,         \* the calendar month datetime.now() falls in
    limit,         \* carrier.capacity_monthly_limit by carrier
    capRows,       \* table carriercapacity, in id order
    quotes,        \* table quote, in id order
    policies,      \* table policy, in id order
    ledger,        \* table ledger, in id order
    idem,          \* table idempotencykey
    bind,          \* by worker: the bind request it is handling, where it is, its answer
    nreq,          \* quote and bind requests received so far
    reserveCalls,  \* by (carrier, month): calls of decrement_carrier_capacity returned
    reserveOk,     \* by (carrier, month): those that returned True
    rngNumpy,      \* numpy's global generator: draws made since it was seeded
    rngPython,     \* random's global generator: draws made since it was seeded
    seedStream,    \* the draws the generators yield after seed(42), in order
    simRuns,       \* the simulation requests answered so far, with their answers
    rules,         \* ComplianceEngine.rules
    evalIn,        \* the arguments of the last direct call of evaluate_rules
    evalOut,       \* its result
    configFile,    \* what reading config/compliance.yaml gives
    engine,        \* the module-level ComplianceEngine: "none", "constructed", "crashed"
    callIn,        \* the arguments of the last direct call of a pure function
    callOut        \* its result

vars == <<month, limit, capRows, quotes, policies, ledger, idem, bind, nreq,
          reserveCalls, reserveOk, rngNumpy, rngPython, seedStream, simRuns,
          rules, evalIn, evalOut, configFile, engine, callIn, callOut>>

dbVars == <<capRows, quotes, policies, ledger, idem>>
simVars == <<rngNumpy, rngPython, seedStream, simRuns>>
engineVars == <<simVars, rules, evalIn, evalOut, configFile, engine, callIn, callOut>>

\* No policyholder object.
NoPolicyholder == [state |-> AbsentStr, age |-> AbsentInt, tenure_months |-> AbsentInt]

IdleBind == [pc |-> "idle", key |-> NoKey, quote_id |-> 0, month |-> 0, row |-> 0,
             loaded |-> 0, policy_id |-> 0, status |-> 0, cached |-> FALSE,
             policyholder |-> NoPolicyholder]
NoEval == [decision |-> "none", disclosures |-> <<>>, rules_applied |-> <<>>]
NoEvalIn == [product_code |-> "none", request_data |-> RequestData(MkShipping(AbsentInt, AbsentStr, AbsentStr)),
             policyholder |-> NoPolicyholder]

\* A compliance.yaml that parses to a mapping whose "rules" key holds ruleSeq.
RulesDocument(ruleSeq) == [kind |-> "mapping", has_rules |-> TRUE, rules |-> ruleSeq]

\* No direct call of a pure function was made.
NoCall == <<>>

\* The engine was built from the rule file and no pure function was called.
\* The draws of the two generators after seed(42): position k holds the k-th
\* standard normal deviate of numpy and the k-th random.random() of random,
\* the latter in hundredths.  The streams repeat after StreamLen draws.
StreamLen == 3
NormalDraws == {-4, 2}
UniformDraws == {3, 50}
SeedStreams == [1..StreamLen -> NormalDraws \X UniformDraws]

\* No simulation has run: the generators are as the interpreter left them.
NoSimulation ==
    /\ rngNumpy = 0 /\ rngPython = 0
    /\ seedStream = [k \in 1..StreamLen |-> <<2, 50>>]
    /\ simRuns = <<>>

EngineLoaded ==
    /\ configFile = RulesDocument(rules)
    /\ engine = "constructed"
    /\ callIn = NoCall
    /\ callOut = NoCall
    /\ NoSimulation

\* load_seed_data: one capacity row per carrier for the month of the first start.
SeedRows(limits, m) ==
    [i \in 1..Len(CarrierOrder) |->
        [carrier_id |-> CarrierOrder[i], as_of_month |-> m,
         remaining_count |-> limits[CarrierOrder[i]]]]

Init ==
    /\ month = 1
    /\ limit \in [Carriers -> 0..MaxLimit]
    /\ capRows = SeedRows(limit, 1)
    /\ quotes = <<>>
    /\ policies = <<>>
    /\ ledger = <<>>
    /\ idem = {}
    /\ bind = [w \in Workers |-> IdleBind]
    /\ nreq = 0
    /\ reserveCalls = [k \in Carriers \X Months |-> 0]
    /\ reserveOk = [k \in Carriers \X Months |-> 0]
    /\ rules = ConfiguredRules
    /\ evalIn = NoEvalIn
    /\ evalOut = NoEval
    /\ EngineLoaded

\* The clock passes into the next month.
Tick ==
    /\ month < MaxMonth
    /\ month' = month + 1
    /\ UNCHANGED <<limit, dbVars, bind, nreq, reserveCalls, reserveOk, engineVars>>

(***************************************************************************)
(* POST /v1/quotes (routers/quotes.py, create_quote).  The handler reads,  *)
(* then inserts one fresh quote row and one idempotency row; it is one     *)
(* step of the model.                                                      *)
(***************************************************************************)
\* check_idempotency_key: the stored rows for (key, POST, path).
CachedResponses(table, key, path) ==
    IF key = NoKey THEN {} ELSE {e \in table : e.key = key /\ e.path = path}

\* store_idempotency_response: IdempotencyKey.key is unique, so the insert
\* fails when any row holds the key.
KeyTaken(table, key) == \E e \in table : e.key = key

IdempotencyRow(key, path, id) == [key |-> key, path |-> path, response_id |-> id]

\* A compliance result stops the request (quotes.py 128, bindings.py 63).
ComplianceNeverBlocks(compliance) == FALSE

ComplianceBlocks(compliance) == compliance.decision = "block"

\* The Quote row create_quote builds from the selected evaluation;
\* compliance_decision is the decision held in compliance_json.
QuoteRow(req, risk, selected, compliance) ==
    [product_code |-> req.product_code, request_data |-> RequestData(req),
     compliance_decision |-> compliance.decision,
     price_breakdown |-> selected.breakdown,
     router_rationale |-> [carrier_id |-> selected.carrier_id,
                           margin |-> selected.expected_margin,
                           premium_cents |-> selected.premium_cents,
                           capacity |-> selected.capacity],
     risk_band |-> risk.risk_band, risk_multiplier |-> risk.risk_multiplier,
     carrier_suggestion |-> selected.carrier_id, premium_cents |-> selected.premium_cents]

\* create_quote after the idempotency check: <<status, rows to insert>>.
CreateQuote(req, ruleSeq, rows, limits, as_of_month) ==
    LET rd == RequestData(req)
        ph == QuotePolicyholder(req)
    IN
    IF req.product_code \notin Partner.products THEN [status |-> 400, rows |-> <<>>]
    ELSE IF ~QuoteFieldsPresent(req) THEN [status |-> 400, rows |-> <<>>]
    ELSE IF ComplianceBlocks(EvaluateRules(ruleSeq, req.product_code, rd, ph))
         THEN [status |-> 400, rows |-> <<>>]
    ELSE LET risk == RiskAssessment(req.product_code, rd, ph)
             evals == EligibleFrom(1, req.product_code, rd, ph, risk,
                                   CarrierCapacities(rows, limits, as_of_month))
         IN  IF evals = <<>> THEN [status |-> 500, rows |-> <<>>]
             ELSE [status |-> 200,
                   rows |-> <<QuoteRow(req, risk, evals[SelectedIndex(evals)],
                                       EvaluateRules(ruleSeq, req.product_code, rd, ph))>>]

\* get_carrier_capacities_for_month as a get-or-initialise: a key without a
\* row gets one holding the monthly limit.
RowsInitialisedOnRead(rows, limits, as_of_month) ==
    rows \o SelectSeq(SeedRows(limits, as_of_month),
                      LAMBDA r : FirstRow(rows, r.carrier_id, as_of_month) = 0)

\* The carriercapacity table after create_quote: the handler only reads it
\* (get_carrier_capacities_for_month adds no row for a key that has none).
RowsAfterQuote(rows, limits, as_of_month) == rows

Quote(req, key) ==
    /\ nreq < MaxRequests
    /\ nreq' = nreq + 1
    /\ CachedResponses(idem, key, QuotesPath) = {}
    /\ LET out == CreateQuote(req, rules, capRows, limit, month) IN
       /\ quotes' = quotes \o out.rows
       /\ idem' = IF out.status = 200 /\ key # NoKey /\ ~KeyTaken(idem, key)
                  THEN idem \cup {IdempotencyRow(key, QuotesPath, Len(quotes) + 1)}
                  ELSE idem
    /\ capRows' = RowsAfterQuote(capRows, limit, month)
    /\ UNCHANGED <<month, limit, policies, ledger, bind, reserveCalls, reserveOk, engineVars>>

(***************************************************************************)
(* POST /v1/bindings (routers/bindings.py, create_binding).  Every query   *)
(* and every commit of the handler is a step, so the handlers of several   *)
(* workers interleave between them.  A handler that has answered holds its *)
(* answer (pc = "answered") until the worker returns to the pool.          *)
(***************************************************************************)
\* The handler of a worker ends with this answer (policy_id 0: an error body).
Answered(status, policy_id, cached) ==
    [IdleBind EXCEPT !.pc = "answered", !.status = status, !.policy_id = policy_id,
                     !.cached = cached]

\* A bind handler that skips the idempotency check.
BindNeverCached(table, key) == {}

\* check_idempotency_key of create_binding: the stored answer, if any.
BindCached(table, key) == CachedResponses(table, key, BindingsPath)

\* Requests go to the first free worker.
FirstIdle(w) == bind[w].pc = "idle" /\ (w = "w2" => bind["w1"].pc # "idle")

\* A bind request arrives; lines 39-42: the idempotency check.
BindBegin(w, quote_id, key, policyholder) ==
    /\ FirstIdle(w)
    /\ nreq < MaxRequests
    /\ nreq' = nreq + 1
    /\ bind' = [bind EXCEPT ![w] =
                  IF BindCached(idem, key) # {}
                  THEN [Answered(200, (CHOOSE e \in BindCached(idem, key) : TRUE).response_id, TRUE)
                           EXCEPT !.key = key]
                  ELSE [IdleBind EXCEPT !.pc = "load", !.key = key, !.quote_id = quote_id,
                                        !.policyholder = policyholder]]
    /\ UNCHANGED <<month, limit, dbVars, reserveCalls, reserveOk, engineVars>>

\* Lines 44-75: the quote query, the compliance re-check on the quote's
\* request merged with the policyholder, the carrier query, current_month.
BindLoadQuote(w) ==
    /\ bind[w].pc = "load"
    /\ LET qid == bind[w].quote_id IN
       bind' = [bind EXCEPT ![w] =
          IF qid \notin 1..Len(quotes) THEN Answered(404, 0, FALSE)
          ELSE IF ComplianceBlocks(EvaluateRules(rules, quotes[qid].product_code,
                                                 quotes[qid].request_data, bind[w].policyholder))
          THEN Answered(400, 0, FALSE)
          ELSE IF quotes[qid].carrier_suggestion \notin Carriers THEN Answered(500, 0, FALSE)
          ELSE [@ EXCEPT !.pc = "reserve", !.month = month, !.policyholder = NoPolicyholder]]
    /\ UNCHANGED <<month, limit, dbVars, nreq, reserveCalls, reserveOk, engineVars>>

BindKey(w) == <<quotes[bind[w].quote_id].carrier_suggestion, bind[w].month>>

\* decrement_carrier_capacity lines 183-207: the query for the capacity row;
\* a row without capacity ends the call (False) and the request (400).
BindReserveRead(w) ==
    /\ bind[w].pc = "reserve"
    /\ LET k == BindKey(w)
           row == FirstRow(capRows, k[1], k[2])
       IN  IF ReserveRefused(capRows, row)
           THEN /\ bind' = [bind EXCEPT ![w] = Answered(400, 0, FALSE)]
                /\ reserveCalls' = [reserveCalls EXCEPT ![k] = @ + 1]
           ELSE /\ bind' = [bind EXCEPT ![w].pc = "commit", ![w].row = row,
                               ![w].loaded = IF row = 0 THEN 0 ELSE capRows[row].remaining_count]
                /\ reserveCalls' = reserveCalls
    /\ UNCHANGED <<month, limit, dbVars, nreq, reserveOk, engineVars>>

\* decrement_carrier_capacity lines 189-210: add the new row or write the
\* decremented count, commit, return True.
BindReserveCommit(w) ==
    /\ bind[w].pc = "commit"
    /\ LET k == BindKey(w) IN
       /\ capRows' = ReserveCommit(capRows, k[1], k[2], bind[w].row, bind[w].loaded, limit[k[1]])
       /\ reserveCalls' = [reserveCalls EXCEPT ![k] = @ + 1]
       /\ reserveOk' = [reserveOk EXCEPT ![k] = @ + 1]
    /\ bind' = [bind EXCEPT ![w].pc = "policy", ![w].row = 0, ![w].loaded = 0]
    /\ UNCHANGED <<month, limit, quotes, policies, ledger, idem, nreq, engineVars>>

\* A Policy row with the partner markup applied a second time at bind time.
PolicyRowRepriced(quote_id, quote, today) ==
    [quote_id |-> quote_id, product_code |-> quote.product_code,
     carrier_id |-> quote.carrier_suggestion,
     premium_total_cents |-> (quote.premium_cents * (100 + Partner.markup_pct)) \div 100,
     status |-> "active", effective_month |-> today]

\* Lines 88-97: the Policy row built from the quote.
PolicyRow(quote_id, quote, today) ==
    [quote_id |-> quote_id, product_code |-> quote.product_code,
     carrier_id |-> quote.carrier_suggestion, premium_total_cents |-> quote.premium_cents,
     status |-> "active", effective_month |-> today]

\* Lines 88-101: insert the policy and commit.
BindInsertPolicy(w) ==
    /\ bind[w].pc = "policy"
    /\ policies' = Append(policies, PolicyRow(bind[w].quote_id, quotes[bind[w].quote_id], month))
    /\ bind' = [bind EXCEPT ![w].pc = "ledger", ![w].policy_id = Len(policies) + 1]
    /\ UNCHANGED <<month, limit, capRows, quotes, ledger, idem, nreq,
                   reserveCalls, reserveOk, engineVars>>

\* write_premium_to_ledger: the Ledger row.
LedgerRow(policy_id, premium_cents) ==
    [policy_id |-> policy_id, written_premium_cents |-> premium_cents]

\* Lines 103-108: append the ledger entry and commit.
BindWriteLedger(w) ==
    /\ bind[w].pc = "ledger"
    /\ ledger' = Append(ledger, LedgerRow(bind[w].policy_id,
                                          policies[bind[w].policy_id].premium_total_cents))
    /\ bind' = [bind EXCEPT ![w].pc = "respond"]
    /\ UNCHANGED <<month, limit, capRows, quotes, policies, idem, nreq,
                   reserveCalls, reserveOk, engineVars>>

\* Lines 110-132: store the answer under the idempotency key and answer; the
\* insert of a key another row holds raises (500).
BindRespond(w) ==
    /\ bind[w].pc = "respond"
    /\ IF bind[w].key = NoKey
       THEN /\ idem' = idem
            /\ bind' = [bind EXCEPT ![w] = Answered(200, bind[w].policy_id, FALSE)]
       ELSE IF KeyTaken(idem, bind[w].key)
       THEN /\ idem' = idem
            /\ bind' = [bind EXCEPT ![w] = Answered(500, 0, FALSE)]
       ELSE /\ idem' = idem \cup {IdempotencyRow(bind[w].key, BindingsPath, bind[w].policy_id)}
            /\ bind' = [bind EXCEPT ![w] = Answered(200, bind[w].policy_id, FALSE)]
    /\ UNCHANGED <<month, limit, capRows, quotes, policies, ledger, nreq,
                   reserveCalls, reserveOk, engineVars>>

\* The answer is sent and the worker is free again.
BindReturn(w) ==
    /\ bind[w].pc = "answered"
    /\ bind' = [bind EXCEPT ![w] = IdleBind]
    /\ UNCHANGED <<month, limit, dbVars, nreq, reserveCalls, reserveOk, engineVars>>

Next ==
    \/ Tick
    \/ \E req \in QuoteRequests, key \in Keys \cup {NoKey} : Quote(req, key)
    \/ \E w \in Workers, q \in 1..(Len(quotes) + 1), key \in Keys \cup {NoKey},
          ph \in Policyholders : BindBegin(w, q, key, ph)
    \/ \E w \in Workers : BindLoadQuote(w)
    \/ \E w \in Workers : BindReserveRead(w)
    \/ \E w \in Workers : BindReserveCommit(w)
    \/ \E w \in Workers : BindInsertPolicy(w)
    \/ \E w \in Workers : BindWriteLedger(w)
    \/ \E w \in Workers : BindRespond(w)
    \/ \E w \in Workers : BindReturn(w)

Spec == Init /\ [][Next]_vars

(***************************************************************************)
(* Properties.                                                             *)
(***************************************************************************)
CapacityKeys == Carriers \X Months

\* The counter of a key as the program reads it.
Remaining(rows, k) == CarrierCapacities(rows, limit, k[2])[k[1]]

\* No reserve call is between its query and its commit.
NoReserveInFlight == \A w \in Workers : bind[w].pc # "commit"

\* The reserve call of worker w commits in this step.
ReserveCommits(w) == bind[w].pc = "commit" /\ bind'[w].pc = "policy"

\* C1: when the N reserve calls made so far on a key whose counter started at
\* its limit k have all returned, exactly min(N, k) of them returned success
\* and the counter holds max(0, k - N), whatever the interleaving.
C1_ReserveSafeUnderConcurrency ==
    NoReserveInFlight =>
        \A k \in CapacityKeys :
            /\ reserveOk[k] = Min(reserveCalls[k], limit[k[1]])
            /\ reserveCalls[k] > 0 =>
                  Remaining(capRows, k) = Max(0, limit[k[1]] - reserveCalls[k])

\* C2: every capacity row holds a count between 0 and its carrier's monthly
\* limit, the rows added by a first reserve included.
C2_CounterWithinLimit ==
    \A i \in 1..Len(capRows) :
        /\ 0 <= capRows[i].remaining_count
        /\ capRows[i].remaining_count <= limit[capRows[i].carrier_id]

\* A first reserve on a key without a row has added its row.
C2_FirstReserveAddedRow ==
    \E i \in 1..Len(capRows) :
        /\ capRows[i].as_of_month # 1
        /\ capRows[i].remaining_count = limit[capRows[i].carrier_id] - 1

\* C3: one reserve call on a key is decrement-if-positive over a counter that
\* starts at the monthly limit L: without a row it succeeds and leaves L - 1
\* when L > 0 and fails when L = 0; on a row holding r > 0 it succeeds and
\* leaves r - 1; on a row holding 0 it fails and leaves 0.
C3_ReserveIsDecrementIfPositive ==
    [][\A k \in CapacityKeys :
          reserveCalls'[k] = reserveCalls[k] + 1 =>
             LET before == Remaining(capRows, k)
                 success == reserveOk'[k] = reserveOk[k] + 1
             IN  IF before > 0
                 THEN success /\ Remaining(capRows', k) = before - 1
                 ELSE ~success /\ capRows' = capRows /\ Remaining(capRows', k) = 0]_vars

\* C4: the count of an existing capacity row never increases, and a reserve
\* that returns while the key's counter is 0 fails.
C4_RemainingNeverIncreases ==
    [][/\ \A i \in 1..Len(capRows) :
             capRows'[i].remaining_count <= capRows[i].remaining_count
       /\ \A k \in CapacityKeys :
             (FirstRow(capRows, k[1], k[2]) # 0 /\ Remaining(capRows, k) = 0)
                => reserveOk'[k] = reserveOk[k]]_vars


\* A quote request (accepted or refused) is handled in this step.
QuoteStep == nreq' = nreq + 1 /\ bind' = bind

\* C5: a quote request changes no capacity row and adds none; a capacity row
\* changes or appears only in the reserve step of a bind request.
C5_QuoteLeavesCapacity ==
    [][/\ QuoteStep => capRows' = capRows
       /\ capRows' # capRows => \E w \in Workers : ReserveCommits(w)]_vars

\* A quote is stored and the keys of the month have no capacity row.
C5_QuotedWithoutRow ==
    /\ quotes # <<>>
    /\ \E c \in Carriers : FirstRow(capRows, c, month) = 0

\* The ledger rows written for a policy.
LedgerOf(policy_id) == {i \in 1..Len(ledger) : ledger[i].policy_id = policy_id}

\* C6: a bind that succeeds has taken exactly 1 from the counter of the
\* quote's carrier for the month, and leaves exactly one active policy of
\* its own and exactly one ledger row for it, of the policy's premium.
C6_BindEffects ==
    [][\A w \in Workers :
          /\ ReserveCommits(w) =>
                Remaining(capRows', BindKey(w)) = Remaining(capRows, BindKey(w)) - 1
          /\ (bind[w].pc = "respond" /\ bind'[w].pc = "answered" /\ bind'[w].status = 200) =>
                LET pid == bind'[w].policy_id IN
                /\ pid \in 1..Len(policies)
                /\ policies[pid].status = "active"
                /\ policies[pid].quote_id = bind[w].quote_id
                /\ \A v \in Workers \ {w} : bind[v].policy_id # pid
                /\ Cardinality(LedgerOf(pid)) = 1
                /\ \A i \in LedgerOf(pid) :
                      ledger[i].written_premium_cents = policies[pid].premium_total_cents]_vars

\* C7: every policy carries the carrier and the premium of its quote, and a
\* stored quote or policy is never modified afterwards.
C7_PolicyCopiesQuote ==
    [][/\ \A i \in 1..Len(policies') :
             /\ policies'[i].quote_id \in 1..Len(quotes')
             /\ policies'[i].carrier_id = quotes'[policies'[i].quote_id].carrier_suggestion
             /\ policies'[i].premium_total_cents = quotes'[policies'[i].quote_id].premium_cents
       /\ Len(quotes') >= Len(quotes) /\ SubSeq(quotes', 1, Len(quotes)) = quotes
       /\ Len(policies') >= Len(policies)
       /\ SubSeq(policies', 1, Len(policies)) = policies]_vars

\* A policy exists and the tables have grown after it was stored.
C7_PolicyThenMore ==
    /\ policies # <<>>
    /\ Len(quotes) > policies[1].quote_id

\* C8: no two policies have the same quote_id.
C8_OnePolicyPerQuote ==
    \A i, j \in 1..Len(policies) :
        i # j => policies[i].quote_id # policies[j].quote_id

\* C9: a bind request whose idempotency key is stored for POST /v1/bindings
\* is answered with the stored response (the same policy_id) and creates
\* nothing: no policy, no ledger row, no counter change, no key row.
C9_BindReplay ==
    [][\A w \in Workers :
          (/\ bind[w].pc = "idle" /\ bind'[w].pc # "idle"
           /\ CachedResponses(idem, bind'[w].key, BindingsPath) # {}) =>
             /\ bind'[w].pc = "answered"
             /\ bind'[w].status = 200
             /\ \A e \in CachedResponses(idem, bind'[w].key, BindingsPath) :
                   bind'[w].policy_id = e.response_id
             /\ dbVars' = dbVars
             /\ reserveCalls' = reserveCalls]_vars

\* A bind request was answered from the stored response.
C9_Replayed ==
    \E w \in Workers :
        /\ bind[w].pc = "answered" /\ bind[w].cached
        /\ bind[w].policy_id \in 1..Len(policies)

(***************************************************************************)
(* decrement_carrier_capacity called on its own, one call at a time, from  *)
(* any state of the counters (services/routing.py, and its wrapper in      *)
(* services/ledger.py).                                                    *)
(***************************************************************************)
\* The counters a carrier's seeded row can hold after some binds.
InitReserve ==
    /\ month \in Months
    /\ limit \in [Carriers -> 0..MaxLimit]
    /\ \E used \in [Carriers -> 0..MaxLimit] :
          /\ \A c \in Carriers : used[c] <= limit[c]
          /\ capRows = SeedRows([c \in Carriers |-> limit[c] - used[c]], 1)
    /\ quotes = <<>> /\ policies = <<>> /\ ledger = <<>> /\ idem = {}
    /\ bind = [w \in Workers |-> IdleBind]
    /\ nreq = 0
    /\ reserveCalls = [k \in Carriers \X Months |-> 0]
    /\ reserveOk = [k \in Carriers \X Months |-> 0]
    /\ rules = ConfiguredRules /\ evalIn = NoEvalIn /\ evalOut = NoEval
    /\ EngineLoaded

DirectReserve(carrier_id, as_of_month) ==
    /\ nreq < MaxRequests
    /\ nreq' = nreq + 1
    /\ LET k == <<carrier_id, as_of_month>>
           row == FirstRow(capRows, carrier_id, as_of_month)
       IN  /\ reserveCalls' = [reserveCalls EXCEPT ![k] = @ + 1]
           /\ IF ReserveRefused(capRows, row)
              THEN UNCHANGED <<capRows, reserveOk>>
              ELSE /\ capRows' = ReserveCommit(capRows, carrier_id, as_of_month, row,
                                               IF row = 0 THEN 0 ELSE capRows[row].remaining_count,
                                               limit[carrier_id])
                   /\ reserveOk' = [reserveOk EXCEPT ![k] = @ + 1]
    /\ UNCHANGED <<month, limit, quotes, policies, ledger, idem, bind, engineVars>>

NextReserve == \E c \in Carriers, m \in Months : DirectReserve(c, m)

SpecReserve == InitReserve /\ [][NextReserve]_vars

(***************************************************************************)
(* evaluate_rules called on its own, over rule files of up to MaxRules     *)
(* rules (services/compliance.py).                                         *)
(***************************************************************************)
RuleUniverse ==
    { MkRule("b_ppi_state", "ppi", "block", {"state_in"}, {"GA"}, {}, NoThresholds),
      MkRule("b_ppi_age", "ppi", "block", {"min_age"}, {}, {},
             [NoThresholds EXCEPT !["min_age"] = 18]),
      MkRule("d_ppi", "ppi", "disclosure", {}, {}, {}, NoThresholds),
      MkRule("b_ship_both", "shipping", "block", {"state_in", "item_category_in"},
             {"AK"}, {"jewelry_high_value"}, NoThresholds),
      MkRule("b_ship_always", "shipping", "block", {}, {}, {}, NoThresholds),
      MkRule("d_ship", "shipping", "disclosure", {}, {}, {}, NoThresholds),
      MkRule("w_ship", "shipping", "warning", {"state_in"}, {"AK", "CA"}, {}, NoThresholds),
      MkJobRule("b_ppi_state_job", "ppi", "block", {"state_in", "job_category_in"},
                {"CA"}, {"seasonal_temp"}) }

RuleFiles == UNION {[1..n -> RuleUniverse] : n \in 0..MaxRules}

EvalRequests == {r \in QuoteRequests : QuoteFieldsPresent(r)}

InitRules ==
    /\ rules \in RuleFiles
    /\ evalIn = NoEvalIn /\ evalOut = NoEval
    /\ EngineLoaded
    /\ month = 1
    /\ limit = [c \in Carriers |-> MaxLimit]
    /\ capRows = SeedRows(limit, 1)
    /\ quotes = <<>> /\ policies = <<>> /\ ledger = <<>> /\ idem = {}
    /\ bind = [w \in Workers |-> IdleBind]
    /\ nreq = 0
    /\ reserveCalls = [k \in Carriers \X Months |-> 0]
    /\ reserveOk = [k \in Carriers \X Months |-> 0]

\* evaluate_rules keeps no state between calls, so one call per behaviour
\* covers every call.
EvaluateCall(req, policyholder) ==
    /\ evalIn = NoEvalIn
    /\ evalIn' = [product_code |-> req.product_code, request_data |-> RequestData(req),
                  policyholder |-> policyholder]
    /\ evalOut' = EvaluateRules(rules, req.product_code, RequestData(req), policyholder)
    /\ UNCHANGED <<month, limit, dbVars, bind, nreq, reserveCalls, reserveOk, simVars, rules,
                   configFile, engine, callIn, callOut>>

NextRules == \E req \in EvalRequests, ph \in Policyholders : EvaluateCall(req, ph)

SpecRules == InitRules /\ [][NextRules]_vars

\* The permutations of 1..n.
Perms(n) == {f \in [1..n -> 1..n] : \A i, j \in 1..n : i # j => f[i] # f[j]}

\* The rules of the file that are block rules for the product and whose
\* criteria hold.
BlockingRules(ruleSeq, product_code, context) ==
    {i \in 1..Len(ruleSeq) : /\ ruleSeq[i].type = "block"
                             /\ RuleApplies(ruleSeq[i], product_code, context)}

PredicateHolds(rule, name, context) ==
    IF name = "job_category_in" THEN context.job_category \in rule.job_category_in
    ELSE /\ name \in KnownCriteria
         /\ name \in NumericCriteria => ~CriterionRaises(name, context)
         /\ CriterionResult(rule, name, context)

\* C11: the id of a rule is in rules_applied exactly when the rule's
\* applies_to is the product and every predicate named in its criteria holds
\* on the merged context; a rule without criteria applies whenever the
\* product matches.
C11_AppliedIffAllCriteriaHold ==
    evalOut # NoEval =>
        LET context == BuildContext(evalIn.product_code, evalIn.request_data, evalIn.policyholder)
        IN  \A i \in 1..Len(rules) :
               (\E j \in 1..Len(evalOut.rules_applied) : evalOut.rules_applied[j] = rules[i].id)
                  <=> /\ rules[i].applies_to = evalIn.product_code
                      /\ \A n \in rules[i].has : PredicateHolds(rules[i], n, context)

\* The compliance decision of the bind request worker w is handling, on the
\* request fields of its quote merged with the policyholder it sent.
BindDecision(w) ==
    EvaluateRules(rules, quotes[bind[w].quote_id].product_code,
                  quotes[bind[w].quote_id].request_data, bind[w].policyholder).decision

\* C12: no stored quote has the compliance decision block (for a shipping
\* quote, also when the decision is computed again from the stored request);
\* a bind whose compliance decision is block is answered 400 in the step of
\* its compliance check, with no table changed and no reserve made, and a
\* bind reaches the reserve only from a compliance check that did not block.
C12_ComplianceGates ==
    [][/\ \A i \in 1..Len(quotes') :
             /\ quotes'[i].compliance_decision # "block"
             /\ quotes'[i].product_code = "shipping" =>
                   EvaluateRules(rules, "shipping", quotes'[i].request_data,
                                 [state |-> quotes'[i].request_data.destination_state,
                                  age |-> 30, tenure_months |-> 12]).decision # "block"
       /\ \A w \in Workers :
             /\ (/\ bind[w].pc = "load" /\ bind'[w] # bind[w]
                 /\ bind[w].quote_id \in 1..Len(quotes)) =>
                   IF BindDecision(w) = "block"
                   THEN /\ bind'[w].pc = "answered" /\ bind'[w].status = 400
                        /\ dbVars' = dbVars /\ reserveCalls' = reserveCalls
                   ELSE bind'[w].pc = "reserve"
             /\ (bind'[w].pc = "reserve" /\ bind[w].pc # "reserve") => bind[w].pc = "load"
             /\ (bind'[w].pc \in {"commit", "policy", "ledger", "respond"}
                 /\ bind[w].pc # bind'[w].pc) =>
                   bind[w].pc \in {"reserve", "commit", "policy", "ledger"}]_vars

\* A bind on a stored quote was answered 400 without any reserve call: the
\* compliance check on the policyholder it sent rejected it.
C12_BindRejectedByCompliance ==
    /\ quotes # <<>>
    /\ \A k \in CapacityKeys : reserveCalls[k] = 0
    /\ \E w \in Workers : bind[w].pc = "answered" /\ bind[w].status = 400

(***************************************************************************)
(* Construction of the module-level ComplianceEngine: __init__ and         *)
(* _load_rules (services/compliance.py).                                   *)
(***************************************************************************)
\* What open() and yaml.safe_load can give for config/compliance.yaml: no
\* file, a file that is not YAML, an empty document (None), a document that
\* is a list, a mapping without the key "rules", a mapping with it.
ConfigFiles ==
    { [kind |-> k, has_rules |-> FALSE, rules |-> <<>>] :
          k \in {"missing", "unparseable", "empty", "list", "mapping"} }
    \cup { RulesDocument(r) : r \in RuleFiles }

\* _load_rules: only FileNotFoundError is caught.  yaml.safe_load raises
\* YAMLError on a file that is not YAML; config.get raises AttributeError on
\* None and on a list; both leave __init__ and the import of the module.
LoadRules(doc) ==
    CASE doc.kind = "missing" -> [engine |-> "constructed", rules |-> <<>>]
      [] doc.kind \in {"unparseable", "empty", "list"} -> [engine |-> "crashed", rules |-> <<>>]
      [] OTHER -> [engine |-> "constructed",
                   rules |-> IF doc.has_rules THEN doc.rules ELSE <<>>]

InitLoad ==
    /\ configFile \in ConfigFiles
    /\ engine = "none"
    /\ rules = <<>>
    /\ evalIn = NoEvalIn /\ evalOut = NoEval
    /\ callIn = NoCall /\ callOut = NoCall
    /\ NoSimulation
    /\ month = 1
    /\ limit = [c \in Carriers |-> MaxLimit]
    /\ capRows = SeedRows(limit, 1)
    /\ quotes = <<>> /\ policies = <<>> /\ ledger = <<>> /\ idem = {}
    /\ bind = [w \in Workers |-> IdleBind]
    /\ nreq = 0
    /\ reserveCalls = [k \in Carriers \X Months |-> 0]
    /\ reserveOk = [k \in Carriers \X Months |-> 0]

\* compliance_engine = ComplianceEngine()
ConstructEngine ==
    /\ engine = "none"
    /\ engine' = LoadRules(configFile).engine
    /\ rules' = LoadRules(configFile).rules
    /\ UNCHANGED <<month, limit, dbVars, bind, nreq, reserveCalls, reserveOk, simVars,
                   evalIn, evalOut, configFile, callIn, callOut>>

NextLoad == ConstructEngine

SpecLoad == InitLoad /\ [][NextLoad]_vars

\* C13: whatever reading the rule configuration gives (no file, a file that
\* does not parse, an empty or non-mapping document, a valid file), the
\* engine ends up constructed, and with an empty rule set unless the file
\* was valid.
C13_LoadNeverCrashes ==
    engine # "none" =>
        /\ engine = "constructed"
        /\ configFile.kind # "mapping" => rules = <<>>

(***************************************************************************)
(* map_risk_score_to_band and calculate_risk_assessment called on their    *)
(* own (services/risk.py).                                                 *)
(***************************************************************************)
MaxScoreStep == 200

\* Scores in ten-thousandths: every hundredth up to MaxScoreStep hundredths,
\* and the values around the four thresholds.
ScoreGrid ==
    {100 * i : i \in 0..MaxScoreStep}
    \cup {b + d : b \in {4000, 8000, 12000, 16000}, d \in {-1, 0, 1}}

\* Requests of both products whose scores fall in several bands and on a
\* threshold (shipping 10000 and ppi 1500 over 6 months score 0.4).
RiskRequests ==
    {MkShipping(v, c, "CA") : v \in {1000, 10000, 30000, 60000, 90000},
                              c \in {"standard", "jewelry_high_value"}}
    \cup {MkPpi(v, t, a, 12, "CA") : v \in {1000, 1500, 4000, 7000}, t \in {6, 12},
                                     a \in {20, 30}}

InitCalls ==
    /\ callIn = NoCall /\ callOut = NoCall
    /\ NoSimulation
    /\ rules = ConfiguredRules
    /\ configFile = RulesDocument(rules) /\ engine = "constructed"
    /\ evalIn = NoEvalIn /\ evalOut = NoEval
    /\ month = 1
    /\ limit = [c \in Carriers |-> MaxLimit]
    /\ capRows = SeedRows(limit, 1)
    /\ quotes = <<>> /\ policies = <<>> /\ ledger = <<>> /\ idem = {}
    /\ bind = [w \in Workers |-> IdleBind]
    /\ nreq = 0
    /\ reserveCalls = [k \in Carriers \X Months |-> 0]
    /\ reserveOk = [k \in Carriers \X Months |-> 0]

\* What a direct call of a pure function leaves alone.
systemVars == <<month, limit, dbVars, bind, nreq, reserveCalls, reserveOk, simVars,
                rules, evalIn, evalOut, configFile, engine>>

MapBandCall(score) ==
    /\ callIn' = <<"map_risk_score_to_band", score>>
    /\ callOut' = MapRiskScoreToBand(score)
    /\ UNCHANGED systemVars

AssessCall(req) ==
    /\ LET a == RiskAssessment(req.product_code, RequestData(req), QuotePolicyholder(req))
       IN  /\ callIn' = <<"calculate_risk_assessment", req.product_code, a.risk_score>>
           /\ callOut' = <<a.risk_band, a.risk_multiplier>>
    /\ UNCHANGED systemVars

NextBand ==
    \/ \E score \in ScoreGrid : MapBandCall(score)
    \/ \E req \in RiskRequests : AssessCall(req)

SpecBand == InitCalls /\ [][NextBand]_vars

\* The bands of the specification: lowest score and multiplier of each.
BandFloor == [A |-> 0, B |-> 4000, C |-> 8000, D |-> 12000, E |-> 16000]
BandFactor == [A |-> 90, B |-> 100, C |-> 110, D |-> 125, E |-> 140]

\* The bands whose interval [floor, floor of the next band) holds the score.
BandsHolding(score) ==
    {b \in DOMAIN BandFloor :
        /\ BandFloor[b] <= score
        /\ \A c \in DOMAIN BandFloor : BandFloor[c] > BandFloor[b] => score < BandFloor[c]}

\* C14: every score is in exactly one band, the one whose interval holds it
\* with each threshold in the higher band, with that band's multiplier; a
\* larger score never gets a lower band or a smaller multiplier; and the
\* band and multiplier of a risk assessment are those of its score for both
\* products.
C14_BandStepFunction ==
    callIn # NoCall =>
        LET score == IF callIn[1] = "map_risk_score_to_band" THEN callIn[2] ELSE callIn[3] IN
        /\ BandsHolding(score) = {callOut[1]}
        /\ callOut[2] = BandFactor[callOut[1]]
        /\ \A higher \in ScoreGrid :
              higher >= score =>
                 /\ BandOrder[MapRiskScoreToBand(higher)[1]] >= BandOrder[callOut[1]]
                 /\ MapRiskScoreToBand(higher)[2] >= callOut[2]

\* The score 0.4 was mapped, directly and in a ppi assessment, to band B.
C14_ThresholdInHigherBand ==
    /\ callIn \in {<<"map_risk_score_to_band", 4000>>,
                   <<"calculate_risk_assessment", "ppi", 4000>>}
    /\ callOut = <<"B", 100>>

(***************************************************************************)
(* The routing of create_quote on its own: the handler's computation from  *)
(* the compliance check to the Quote row, for one request on any state of  *)
(* the capacity table (routers/quotes.py lines 120-299).                   *)
(***************************************************************************)
\* Requests that meet and miss each appetite limit of the carriers: states,
\* categories, declared values at and above 50000, terms around 12, a job
\* category and scores up to band E; declared value 1 prices the same at
\* every carrier.
RouteRequests ==
    {MkShipping(v, c, st) : v \in {1, 1000, 50000, 60000}, c \in {"standard", "jewelry_high_value"},
                            st \in {"CA", "AK"}}
    \cup {MkPpi(v, t, 30, 12, "CA") : v \in {1000, 6000}, t \in {6, 18}}
    \cup {[MkPpi(1000, 6, 30, 12, "CA") EXCEPT !.job_category = "seasonal_temp"]}

\* Premiums handed to route_to_carrier, in cents.
RoutePremiums == {0, 1000}

\* create_quote without an idempotency key: the answer, and the tables as the
\* handler leaves them.
QuoteCall(req) ==
    /\ callIn = NoCall
    /\ callIn' = <<"create_quote", req>>
    /\ LET out == CreateQuote(req, rules, capRows, limit, month) IN
       /\ callOut' = <<out>>
       /\ quotes' = quotes \o out.rows
    /\ capRows' = RowsAfterQuote(capRows, limit, month)
    /\ UNCHANGED <<month, limit, policies, ledger, idem, bind, nreq, reserveCalls, reserveOk,
                   simVars, rules, evalIn, evalOut, configFile, engine>>

\* route_to_carrier called with one premium, the per-product appetite of each
\* carrier and the capacities of the month.
RouteCall(req, premium_cents) ==
    /\ callIn = NoCall
    /\ callIn' = <<"route_to_carrier", req, premium_cents>>
    /\ LET risk == RiskAssessment(req.product_code, RequestData(req), QuotePolicyholder(req)) IN
       callOut' = RouteToCarrier(req.product_code, RequestData(req), QuotePolicyholder(req),
                                 risk.risk_band, premium_cents, risk.risk_multiplier,
                                 CarrierCapacities(capRows, limit, month))
    /\ UNCHANGED systemVars

NextRoute ==
    \/ \E req \in RouteRequests : QuoteCall(req)
    \/ \E req \in RouteRequests, premium_cents \in RoutePremiums : RouteCall(req, premium_cents)

SpecRoute == InitReserve /\ [][NextRoute]_vars

\* The request of the last create_quote call, its risk assessment, and the
\* price and margin each carrier offers for it.
RoutedRisk ==
    RiskAssessment(callIn[2].product_code, RequestData(callIn[2]), QuotePolicyholder(callIn[2]))

OfferedPremium(c) ==
    CalculatePremium(callIn[2].product_code, RequestData(callIn[2]), RoutedRisk.risk_multiplier,
                     Partner.markup_pct, PricingCurve(c, callIn[2].product_code),
                     RoutedRisk.risk_band)

OfferedMargin(c) == ExpectedMargin(OfferedPremium(c), RoutedRisk.risk_multiplier)

\* The carriers that pass the appetite and capacity checks for the request.
Survivors ==
    {c \in Carriers :
        /\ AppetiteOk(c, callIn[2].product_code, RequestData(callIn[2]),
                      QuotePolicyholder(callIn[2]), RoutedRisk.risk_band)
        /\ CarrierCapacities(capRows, limit, month)[c] > 0}

\* C15: the carrier of the quote row is a survivor whose margin is at least
\* that of every survivor and whose premium is the lowest among the
\* survivors of equal margin; the row's premium, breakdown and rationale are
\* the selected carrier's.
C15_SelectedHasBestMargin ==
    (callIn # NoCall /\ callIn[1] = "create_quote" /\ callOut[1].status = 200) =>
        LET q == callOut[1].rows[1]
            sel == q.carrier_suggestion
        IN  /\ sel \in Survivors
            /\ \A c \in Survivors :
                  /\ OfferedMargin(sel) >= OfferedMargin(c)
                  /\ OfferedMargin(sel) = OfferedMargin(c) => OfferedPremium(sel) <= OfferedPremium(c)
            /\ q.premium_cents = OfferedPremium(sel)
            /\ q.price_breakdown =
                  Breakdown(callIn[2].product_code, RequestData(callIn[2]),
                            RoutedRisk.risk_multiplier, Partner.markup_pct,
                            PricingCurve(sel, callIn[2].product_code), RoutedRisk.risk_band)
            /\ q.router_rationale =
                  [carrier_id |-> sel, margin |-> OfferedMargin(sel),
                   premium_cents |-> OfferedPremium(sel),
                   capacity |-> CarrierCapacities(capRows, limit, month)[sel]]

\* Two carriers survived with different margins and the better one was taken.
C15_ChoiceBetweenTwo ==
    /\ callIn # NoCall /\ callIn[1] = "create_quote" /\ callOut[1].status = 200
    /\ Cardinality(Survivors) = 2
    /\ \E c \in Survivors : OfferedMargin(c) < OfferedMargin(callOut[1].rows[1].carrier_suggestion)

\* The quote row of the last create_quote call and the appetite entry of its
\* carrier for its product.
RoutedQuote == callOut[1].rows[1]

RoutedAppetite == Appetite[RoutedQuote.carrier_suggestion][RoutedQuote.product_code]

\* C16: the carrier of a stored quote is within its appetite for the
\* product: the state and the item or job category are not excluded, the
\* declared value or term is not above the maximum, the risk band is not
\* above the maximum band; and its remaining capacity read by the quote was
\* above zero.
C16_StoredCarrierWithinAppetite ==
    (callIn # NoCall /\ callIn[1] = "create_quote" /\ callOut[1].status = 200) =>
        LET rd == RoutedQuote.request_data
            pa == RoutedAppetite
        IN  /\ QuotePolicyholder(callIn[2]).state \notin pa.excluded_states
            /\ RoutedQuote.product_code = "shipping" =>
                  /\ rd.item_category \notin pa.excluded_categories
                  /\ rd.declared_value <= pa.max_declared_value
            /\ RoutedQuote.product_code = "ppi" =>
                  /\ rd.job_category \notin pa.excluded_job_categories
                  /\ rd.term_months <= pa.max_term_months
            /\ BandOrder[RoutedQuote.risk_band] <= BandOrder[pa.max_risk_band]
            /\ CarrierCapacities(capRows, limit, month)[RoutedQuote.carrier_suggestion] > 0

\* The carriers route_to_carrier keeps for the request of the step's call.
RouteSurvivors(req) ==
    {c \in Carriers :
        /\ CheckAppetite(req.product_code, RequestData(req), QuotePolicyholder(req),
                         RiskAssessment(req.product_code, RequestData(req),
                                        QuotePolicyholder(req)).risk_band,
                         Appetite[c][req.product_code])
        /\ CarrierCapacities(capRows, limit, month)[c] > 0}

\* The carriers create_quote keeps for a request.
QuoteSurvivors(req) ==
    {c \in Carriers :
        /\ AppetiteOk(c, req.product_code, RequestData(req), QuotePolicyholder(req),
                      RiskAssessment(req.product_code, RequestData(req),
                                     QuotePolicyholder(req)).risk_band)
        /\ CarrierCapacities(capRows, limit, month)[c] > 0}

ReserveFindsNothingLeft(w) ==
    /\ bind[w].pc = "reserve"
    /\ LET row == FirstRow(capRows, BindKey(w)[1], BindKey(w)[2]) IN
       /\ row # 0
       /\ capRows[row].remaining_count <= 0

\* C18: a bind whose reserve finds nothing left for the quote's carrier is
\* answered with 400 in that step; the step changes no capacity row, policy,
\* ledger row or other table, reserves nothing, and calls the reserve for no
\* other carrier.
C18_RefusedBindChangesNothing ==
    [][\A w \in Workers :
          (ReserveFindsNothingLeft(w) /\ bind'[w] # bind[w]) =>
              /\ bind'[w] = Answered(400, 0, FALSE)
              /\ capRows' = capRows /\ policies' = policies /\ ledger' = ledger
              /\ quotes' = quotes /\ idem' = idem
              /\ reserveOk' = reserveOk
              /\ \A k \in CapacityKeys : k # BindKey(w) => reserveCalls'[k] = reserveCalls[k]]_vars

\* A bind was refused by the reserve: answered 400 after a reserve call that
\* did not succeed, while another carrier still has capacity.
C18_BindRefusedByReserve ==
    /\ \E w \in Workers : bind[w].pc = "answered" /\ bind[w].status = 400
    /\ \E k \in CapacityKeys : reserveCalls[k] > reserveOk[k] /\ Remaining(capRows, k) = 0
    /\ \E k \in CapacityKeys : Remaining(capRows, k) > 0

(***************************************************************************)
(* calculate_shipping_premium on its own (services/pricing.py lines 8-63). *)
(***************************************************************************)
\* Declared values in dollars; 10, 30 and 100 put a premium on half a cent.
PriceValues == {1, 10, 30, 100, 1000, 50000}

\* Pricing curves: with every table, with no table, with a table under its
\* alternative name, and with no base rate and a table that lacks entries.
ShippingCurves ==
    {PricingCurve("c1", "shipping"),
     [base_rate |-> 55],
     [base_rate |-> 60, category_multipliers |-> CategoryMultiplier,
      destination_multiplier |-> [low |-> 100]],
     [category_multiplier |-> [standard |-> 100],
      service_level_multiplier |-> ServiceLevelMultiplier]}

PriceRequests ==
    {[MkShipping(v, c, "CA") EXCEPT !.destination_risk = d, !.service_level = sl] :
        v \in PriceValues, c \in {"standard", "jewelry_high_value"},
        d \in {"low", "high"}, sl \in {"ground", "overnight"}}

\* int(round(x)) of a float product: on an exact half the last bit of the
\* float product decides which neighbour comes out.
FloatRounded(r) ==
    IF 2 * (r[1] % r[2]) = r[2] THEN {r[1] \div r[2], r[1] \div r[2] + 1}
    ELSE {RoundHalfEven(r)}

ShippingPremiumCall(req, risk_multiplier, markup_pct, curve) ==
    /\ callIn = NoCall
    /\ callIn' = <<"calculate_shipping_premium", RequestData(req), risk_multiplier,
                   markup_pct, curve>>
    /\ \E premium \in {ShippingPremium(RequestData(req), risk_multiplier, markup_pct, curve)}
                      \cup FloatRounded(ShippingTotalCents(RequestData(req), risk_multiplier,
                                                           markup_pct, curve)) :
          callOut' = <<premium, Breakdown("shipping", RequestData(req), risk_multiplier,
                                          markup_pct, curve, "A")>>
    /\ UNCHANGED systemVars

NextPrice ==
    \E req \in PriceRequests, risk_multiplier \in {90, 100, 140}, markup_pct \in {0, 10},
       curve \in ShippingCurves :
        ShippingPremiumCall(req, risk_multiplier, markup_pct, curve)

SpecPrice == InitCalls /\ [][NextPrice]_vars

\* The multiplier the curve gives for a key: the entry of its table (under
\* either name of the table), 1.0 when the curve has no entry for the key.
TableEntry(curve, name, alt, key) ==
    IF name \in DOMAIN curve /\ key \in DOMAIN curve[name] THEN curve[name][key]
    ELSE IF alt \in DOMAIN curve /\ key \in DOMAIN curve[alt] THEN curve[alt][key]
    ELSE 100

\* round((declaredValue/100) * baseRate * catMult * destMult * svcMult *
\* riskMult * (1 + markup) * 100) for the arguments of the last call, the
\* base rate being the curve's (0.55 for a curve without one).
NominalShippingPremium ==
    LET rd == callIn[2]
        curve == callIn[5]
        baseRate == IF "base_rate" \in DOMAIN curve THEN curve.base_rate ELSE 55
        mults == <<baseRate,
                   TableEntry(curve, "category_multiplier", "category_multipliers",
                              rd.item_category),
                   TableEntry(curve, "destination_multiplier", "destination_multipliers",
                              rd.destination_risk),
                   TableEntry(curve, "service_level_multiplier", "service_multipliers",
                              rd.service_level),
                   callIn[3], 100 + callIn[4]>>
        product == RMul(RMul(RMul(Pct(mults[6]), Pct(mults[5])),
                             RMul(Pct(mults[4]), Pct(mults[3]))),
                        RMul(Pct(mults[2]), Pct(mults[1])))
    IN  RoundHalfEven(RMul(<<rd.declared_value, 1>>, product))

MaxScenarios == 21
ShortLen == 3

\* sorted(): insertion of each element into the sorted rest.
RECURSIVE Insert(_, _)
Insert(x, sorted) ==
    IF sorted = <<>> THEN <<x>>
    ELSE IF x <= Head(sorted) THEN <<x>> \o sorted
    ELSE <<Head(sorted)>> \o Insert(x, Tail(sorted))

RECURSIVE Sorted(_)
Sorted(scenarios) ==
    IF scenarios = <<>> THEN <<>> ELSE Insert(Head(scenarios), Sorted(Tail(scenarios)))

RECURSIVE Sum(_)
Sum(scenarios) == IF scenarios = <<>> THEN 0 ELSE Head(scenarios) + Sum(Tail(scenarios))

\* The element at the index taken in the list as given, not in its sort.
CalculateVarUnsorted(scenarios, confidence_level) ==
    IF scenarios = <<>> THEN 0
    ELSE LET index == (confidence_level * Len(scenarios)) \div 100
         IN  scenarios[Max(0, Min(index, Len(scenarios) - 1)) + 1]

\* _calculate_var; int(confidence_level * len) is the floor of the product.
CalculateVar(scenarios, confidence_level) ==
    IF scenarios = <<>> THEN 0
    ELSE LET sorted_scenarios == Sorted(scenarios)
             index == (confidence_level * Len(sorted_scenarios)) \div 100
         IN  sorted_scenarios[Max(0, Min(index, Len(sorted_scenarios) - 1)) + 1]

\* _calculate_tail_var: the mean of the scenarios that are >= the VaR.
CalculateTailVar(scenarios, confidence_level) ==
    IF scenarios = <<>> THEN <<0, 1>>
    ELSE LET var == CalculateVar(scenarios, confidence_level)
             tail_scenarios == SelectSeq(scenarios, LAMBDA x : x >= var)
         IN  IF tail_scenarios = <<>> THEN <<var, 1>>
             ELSE <<Sum(tail_scenarios), Len(tail_scenarios)>>

\* statistics.median: the middle element, or the mean of the two middle ones.
Median(scenarios) ==
    LET sorted_scenarios == Sorted(scenarios)
        n == Len(scenarios)
    IN  IF n % 2 = 1 THEN <<sorted_scenarios[(n + 1) \div 2], 1>>
        ELSE <<sorted_scenarios[n \div 2] + sorted_scenarios[n \div 2 + 1], 2>>

\* A list of a losses of 3, b losses of 0 and c losses of -1, largest first.
Descending(a, b, c) ==
    [i \in 1..(a + b + c) |-> IF i <= a THEN 3 ELSE IF i <= a + b THEN 0 ELSE -1]

\* Scenario lists: the empty one, every short list in every order, and long
\* lists, for which floor(0.95 n) and floor(0.99 n) differ.
ScenarioLists ==
    UNION {[1..n -> {-1, 0, 3}] : n \in 0..ShortLen}
    \cup {Descending(a, b, n - a - b) :
            a \in 0..MaxScenarios, b \in 0..MaxScenarios, n \in {MaxScenarios - 1, MaxScenarios}}

ConfidenceLevels == {0, 95, 99, 100}

VarCall(scenarios, confidence_level) ==
    /\ callIn = NoCall
    /\ callIn' = <<"_calculate_var", scenarios, confidence_level>>
    /\ callOut' = <<CalculateVar(scenarios, confidence_level)>>
    /\ UNCHANGED systemVars

TailVarCall(scenarios, confidence_level) ==
    /\ callIn = NoCall
    /\ callIn' = <<"_calculate_tail_var", scenarios, confidence_level>>
    /\ callOut' = <<CalculateTailVar(scenarios, confidence_level)>>
    /\ UNCHANGED systemVars

NextVar ==
    \/ \E scenarios \in ScenarioLists, c \in ConfidenceLevels : VarCall(scenarios, c)
    \/ \E scenarios \in ScenarioLists, c \in ConfidenceLevels : TailVarCall(scenarios, c)

SpecVar == InitCalls /\ [][NextVar]_vars

\* The non-empty scenario list of the last call.
CalledOnScenarios(name) == callIn # NoCall /\ callIn[1] = name /\ callIn[2] # <<>>

\* C20: for a non-empty list, the VaR is the element of the ascending sort at
\* index floor(c n) clamped to 0..n-1; VaR(0.99) >= VaR(0.95) >= the median;
\* and the TailVaR at a level is at least the VaR at that level.
C20_VarOrdering ==
    /\ CalledOnScenarios("_calculate_var") =>
          LET scenarios == callIn[2]
              n == Len(scenarios)
              floorcn == (callIn[3] * n) \div 100
              clamped == IF floorcn > n - 1 THEN n - 1 ELSE IF floorcn < 0 THEN 0 ELSE floorcn
              median == Median(scenarios)
          IN  /\ callOut[1] = Sorted(scenarios)[clamped + 1]
              /\ \A i \in 1..(n - 1) : Sorted(scenarios)[i] <= Sorted(scenarios)[i + 1]
              /\ CalculateVar(scenarios, 99) >= CalculateVar(scenarios, 95)
              /\ CalculateVar(scenarios, 95) * median[2] >= median[1]
    /\ CalledOnScenarios("_calculate_tail_var") =>
          callOut[1][1] >= CalculateVar(callIn[2], callIn[3]) * callOut[1][2]

\* The VaR at 0.99 was computed for a list, given largest first, whose VaR at
\* 0.99 is above its VaR at 0.95 and whose VaR at 0.95 is above its median.
C20_ThreeDistinctQuantiles ==
    /\ CalledOnScenarios("_calculate_var")
    /\ callIn[3] = 99
    /\ callOut[1] > CalculateVar(callIn[2], 95)
    /\ CalculateVar(callIn[2], 95) * Median(callIn[2])[2] > Median(callIn[2])[1]

(***************************************************************************)
(* The retention table (services/simulate.py lines 168-221).  Amounts are  *)
(* in thousandths, exact rationals <<num, den>> where they are means; the  *)
(* table holds them rounded to two decimals, as integers of hundredths;    *)
(* rate_on_line and load are in hundredths.                                *)
(***************************************************************************)
RAdd(r, s) == RNorm(<<r[1] * s[2] + s[1] * r[2], r[2] * s[2]>>)

RECURSIVE SumMin(_, _)
SumMin(scenarios, retention) ==
    IF scenarios = <<>> THEN 0
    ELSE Min(Head(scenarios), retention) + SumMin(Tail(scenarios), retention)

RECURSIVE SumExcess(_, _)
SumExcess(scenarios, retention) ==
    IF scenarios = <<>> THEN 0
    ELSE Max(0, Head(scenarios) - retention) + SumExcess(Tail(scenarios), retention)

\* expected_net of one retention before it is rounded (lines 181-190).
ExpectedNet(scenarios, retention, rate_on_line, load) ==
    LET expected_loss == <<SumMin(scenarios, retention), Len(scenarios)>>
        expected_ceded == <<SumExcess(scenarios, retention), Len(scenarios)>>
        reinsurance_premium == RMul(RMul(expected_ceded, Pct(rate_on_line)), Pct(100 + load))
    IN  RAdd(expected_loss, reinsurance_premium)

\* round(x, 2) of an amount in thousandths, in hundredths.
Round2(r) == RoundHalfEven(<<r[1], r[2] * 10>>)

\* _calculate_retention_table: one row per grid entry, in grid order.
CalculateRetentionTable(scenarios, retention_grid, rate_on_line, load) ==
    [i \in 1..Len(retention_grid) |->
        [retention |-> retention_grid[i],
         expected_loss |-> Round2(<<SumMin(scenarios, retention_grid[i]), Len(scenarios)>>),
         expected_ceded |-> Round2(<<SumExcess(scenarios, retention_grid[i]), Len(scenarios)>>),
         expected_net |-> Round2(ExpectedNet(scenarios, retention_grid[i], rate_on_line, load))]]

\* min(retention_table, key = expected_net): the first row of least expected_net.
FirstMinimum(retention_table) ==
    CHOOSE i \in 1..Len(retention_table) :
        /\ \A j \in 1..Len(retention_table) :
              retention_table[i].expected_net <= retention_table[j].expected_net
        /\ \A j \in 1..(i - 1) :
              retention_table[j].expected_net > retention_table[i].expected_net

\* _find_recommended_retention; <<>> stands for the empty dict.
FindRecommendedRetention(retention_table) ==
    IF retention_table = <<>> THEN <<>>
    ELSE <<[retention |-> retention_table[FirstMinimum(retention_table)].retention,
            expected_net |-> retention_table[FirstMinimum(retention_table)].expected_net]>>

\* Scenario lists, retention grids and reinsurance parameters of the calls.
LossLists == UNION {[1..n -> {0, 1000, 3000}] : n \in 1..ShortLen}

RetentionGrids == {<<1000>>, <<1000, 2000>>, <<2000, 1000>>, <<3000, 2000, 1000>>,
                   <<1000, 1001>>, <<1001, 1000>>}

ReinsuranceParams == {[rate_on_line |-> 10, load |-> 20], [rate_on_line |-> 100, load |-> 100],
                      [rate_on_line |-> 50, load |-> 0]}

RetentionCall(scenarios, retention_grid, params) ==
    /\ callIn = NoCall
    /\ callIn' = <<"_calculate_retention_table", scenarios, retention_grid, params>>
    /\ LET table == CalculateRetentionTable(scenarios, retention_grid, params.rate_on_line,
                                            params.load)
       IN  callOut' = <<table, FindRecommendedRetention(table)>>
    /\ UNCHANGED systemVars

NextRetention ==
    \E scenarios \in LossLists, retention_grid \in RetentionGrids, params \in ReinsuranceParams :
        RetentionCall(scenarios, retention_grid, params)

SpecRetention == InitCalls /\ [][NextRetention]_vars

\* expectedNetCost of a grid entry for the arguments of the last call:
\* mean(min(s, r)) + mean(max(0, s - r)) * rateOnLine * (1 + load).
ExpectedNetCost(retention) ==
    ExpectedNet(callIn[2], retention, callIn[4].rate_on_line, callIn[4].load)

\* C23: the recommended retention is an entry of the grid, and its
\* expectedNetCost is at most the expectedNetCost of every entry of the grid.
C23_RecommendedMinimisesNetCost ==
    (callIn # NoCall /\ callIn[1] = "_calculate_retention_table") =>
        LET grid == callIn[3]
            best == callOut[2][1].retention
        IN  /\ \E i \in 1..Len(grid) : grid[i] = best
            /\ \A i \in 1..Len(grid) :
                  ExpectedNetCost(best)[1] * ExpectedNetCost(grid[i])[2]
                      <= ExpectedNetCost(grid[i])[1] * ExpectedNetCost(best)[2]

(***************************************************************************)
(* POST /v1/portfolio/simulate (routers/portfolio.py, simulate_portfolio;  *)
(* services/simulate.py, run_portfolio_simulation).  Scenario amounts are  *)
(* in thousandths.  The handler is one step: it is a coroutine that never  *)
(* awaits between seeding the generators and its last draw.                *)
(***************************************************************************)
MaxCount == 2
MaxRuns == 2
MaxHistory == 1
SimulatePath == "/v1/portfolio/simulate"

\* The k-th draw of a generator that has made pos draws since it was seeded.
DrawAt(stream, pos, k) == stream[((pos + k - 1) % StreamLen) + 1]

\* The generators keep their state: no seed is set.
LeftUnseeded(pos) == pos

\* np.random.seed(42), random.seed(42): the generator restarts its stream.
Seeded(pos) == 0

IntSqrt(v) == CHOOSE r \in 0..v : r * r <= v /\ (r + 1) * (r + 1) > v

\* statistics.mean of the premiums (the histories of the model have a whole
\* mean) and statistics.stdev, or 0.3 of the mean for a single premium.
MeanPremium(premiums) == Sum(premiums) \div Len(premiums)

StdPremium(premiums) ==
    IF Len(premiums) > 1
    THEN IntSqrt(Sum([i \in 1..Len(premiums) |->
                        (premiums[i] - MeanPremium(premiums)) * (premiums[i] - MeanPremium(premiums))])
                 \div (Len(premiums) - 1))
    ELSE (MeanPremium(premiums) * 3) \div 10

\* _generate_scenarios_from_history, lines 94-112: normal draws around the
\* mean; a draw with random.random() < 0.05 is tripled, any other draw is
\* floored at 0.
ScenariosFromHistory(scenario_count, premiums, stream, np_pos, py_pos) ==
    [k \in 1..scenario_count |->
        LET scenario == 1000 * (MeanPremium(premiums)
                                + StdPremium(premiums) * DrawAt(stream, np_pos, k)[1])
        IN  IF DrawAt(stream, py_pos, k)[2] < 5 THEN scenario * 3 ELSE Max(0, scenario)]

\* _generate_synthetic_scenarios: exponential draws of mean 1000 (the
\* deviate of a draw is the size of the stream's value, in thousandths); a
\* draw with random.random() < 0.02 is multiplied by 10.
SyntheticScenarios(scenario_count, stream, np_pos, py_pos) ==
    [k \in 1..scenario_count |->
        LET deviate == Max(DrawAt(stream, np_pos, k)[1], 0 - DrawAt(stream, np_pos, k)[1])
            scenario == 1000 * deviate
        IN  IF DrawAt(stream, py_pos, k)[2] < 2 THEN scenario * 10 ELSE scenario]

\* _generate_scenarios with a database session: the history when there is
\* one, synthetic scenarios otherwise.
GenerateScenarios(scenario_count, premiums, stream, np_pos, py_pos) ==
    IF premiums = <<>> THEN SyntheticScenarios(scenario_count, stream, np_pos, py_pos)
    ELSE ScenariosFromHistory(scenario_count, premiums, stream, np_pos, py_pos)

\* run_portfolio_simulation from the state the generators are in when the
\* scenarios are drawn.
RunPortfolioSimulation(req, premiums, stream, np_pos, py_pos) ==
    LET scenarios == GenerateScenarios(req.scenario_count, premiums, stream, np_pos, py_pos)
        table == CalculateRetentionTable(scenarios, req.retention_grid,
                                         req.reinsurance_params.rate_on_line,
                                         req.reinsurance_params.load)
    IN  [scenarios |-> scenarios,
         var95 |-> CalculateVar(scenarios, 95),
         var99 |-> CalculateVar(scenarios, 99),
         tailvar99 |-> CalculateTailVar(scenarios, 99),
         retention_table |-> table,
         recommended |-> FindRecommendedRetention(table)]

NoResult == [scenarios |-> <<>>, var95 |-> 0, var99 |-> 0, tailvar99 |-> <<0, 1>>,
             retention_table |-> <<>>, recommended |-> <<>>]

\* SimulationRequest: scenario_count is gt 0 and le 10000 (MaxCount here).
SchemaAccepts(req) == req.scenario_count > 0 /\ req.scenario_count <= MaxCount

\* The checks of simulate_portfolio, lines 40-79: TRUE when one of them
\* raises the 400.
HandlerRejects(req) ==
    \/ req.scenario_count > MaxCount
    \/ req.retention_grid = <<>>
    \/ \E i \in 1..Len(req.retention_grid) : req.retention_grid[i] <= 0
    \/ "rate_on_line" \notin DOMAIN req.reinsurance_params
    \/ "load" \notin DOMAIN req.reinsurance_params
    \/ req.reinsurance_params.rate_on_line <= 0
    \/ req.reinsurance_params.rate_on_line > 100
    \/ req.reinsurance_params.load < 0
    \/ req.reinsurance_params.load > 100

MkSimulation(scenario_count, retention_grid, reinsurance_params) ==
    [scenario_count |-> scenario_count, retention_grid |-> retention_grid,
     reinsurance_params |-> reinsurance_params]

GoodParams == [rate_on_line |-> 10, load |-> 20]

\* Requests the handler runs, and requests with each fault it checks for.
SimulationRequests ==
    {MkSimulation(n, g, GoodParams) : n \in 1..MaxCount, g \in {<<1000>>, <<2000, 1000>>}}
    \cup {MkSimulation(n, <<1000>>, GoodParams) : n \in {0, MaxCount + 1}}
    \cup {MkSimulation(1, g, GoodParams) : g \in {<<>>, <<1000, 0>>}}
    \cup {MkSimulation(1, <<1000>>, ps) :
            ps \in {[rate_on_line |-> 10], [load |-> 20], [rate_on_line |-> 0, load |-> 20],
                    [rate_on_line |-> 101, load |-> 20], [rate_on_line |-> 10, load |-> -1],
                    [rate_on_line |-> 10, load |-> 101]}}

\* db_session.query(Policy.premium_total_cents).all()
HistoricalPremiums == [i \in 1..Len(policies) |-> policies[i].premium_total_cents]

\* The log entry of a request that ran no simulation.
NotRun(req, key, status, result) ==
    [request |-> req, key |-> key, premiums |-> HistoricalPremiums, status |-> status,
     ran |-> FALSE, np_before |-> rngNumpy, result |-> result]

\* simulate_portfolio, the whole handler.
Simulate(req, key) ==
    /\ Len(simRuns) < MaxRuns
    /\ IF ~SchemaAccepts(req)
       THEN /\ simRuns' = Append(simRuns, NotRun(req, key, 422, NoResult))
            /\ UNCHANGED <<rngNumpy, rngPython, idem>>
       ELSE IF CachedResponses(idem, key, SimulatePath) # {}
       THEN /\ simRuns' = Append(simRuns,
                  NotRun(req, key, 200,
                         simRuns[(CHOOSE e \in CachedResponses(idem, key, SimulatePath) : TRUE).response_id].result))
            /\ UNCHANGED <<rngNumpy, rngPython, idem>>
       ELSE IF HandlerRejects(req)
       THEN /\ simRuns' = Append(simRuns, NotRun(req, key, 400, NoResult))
            /\ UNCHANGED <<rngNumpy, rngPython, idem>>
       ELSE /\ rngNumpy' = (Seeded(rngNumpy) + req.scenario_count) % StreamLen
            /\ rngPython' = (Seeded(rngPython) + req.scenario_count) % StreamLen
            /\ simRuns' = Append(simRuns,
                  [request |-> req, key |-> key, premiums |-> HistoricalPremiums,
                   status |-> IF key # NoKey /\ KeyTaken(idem, key) THEN 500 ELSE 200,
                   ran |-> TRUE, np_before |-> rngNumpy,
                   result |-> RunPortfolioSimulation(req, HistoricalPremiums, seedStream,
                                                     Seeded(rngNumpy), Seeded(rngPython))])
            /\ idem' = IF key # NoKey /\ ~KeyTaken(idem, key)
                       THEN idem \cup {IdempotencyRow(key, SimulatePath, Len(simRuns) + 1)}
                       ELSE idem
    /\ UNCHANGED <<month, limit, capRows, quotes, policies, ledger, bind, nreq, reserveCalls,
                   reserveOk, seedStream, rules, evalIn, evalOut, configFile, engine,
                   callIn, callOut>>

\* A bind elsewhere adds a policy to the history (bindings.py 88-101).
PolicyBound(premium_cents) ==
    /\ Len(policies) < MaxHistory
    /\ policies' = Append(policies, [PolicyRow(1, [product_code |-> "shipping",
                                                  carrier_suggestion |-> "c1",
                                                  premium_cents |-> premium_cents], month)
                                     EXCEPT !.quote_id = 0])
    /\ UNCHANGED <<month, limit, capRows, quotes, ledger, idem, bind, nreq, reserveCalls,
                   reserveOk, simVars, rules, evalIn, evalOut, configFile, engine,
                   callIn, callOut>>

\* The generators may have been used any number of times before, by earlier
\* simulations, which draw as often from the one as from the other.
InitSim ==
    /\ rngNumpy \in 0..(StreamLen - 1)
    /\ rngPython = rngNumpy
    /\ seedStream \in SeedStreams
    /\ simRuns = <<>>
    /\ callIn = NoCall /\ callOut = NoCall
    /\ rules = ConfiguredRules
    /\ configFile = RulesDocument(rules) /\ engine = "constructed"
    /\ evalIn = NoEvalIn /\ evalOut = NoEval
    /\ month = 1
    /\ limit = [c \in Carriers |-> MaxLimit]
    /\ capRows = SeedRows(limit, 1)
    /\ quotes = <<>> /\ policies = <<>> /\ ledger = <<>> /\ idem = {}
    /\ bind = [w \in Workers |-> IdleBind]
    /\ nreq = 0
    /\ reserveCalls = [k \in Carriers \X Months |-> 0]
    /\ reserveOk = [k \in Carriers \X Months |-> 0]

NextSim ==
    \/ \E req \in SimulationRequests, key \in {NoKey} \cup Keys : Simulate(req, key)
    \/ PolicyBound(10)

SpecSim == InitSim /\ [][NextSim]_vars

\* The simulation requests answered so far for which run_portfolio_simulation ran.
Ran == {i \in 1..Len(simRuns) : simRuns[i].ran}

\* C21: two runs of run_portfolio_simulation with the same arguments on the
\* same historical premiums return the same var95, var99, tailvar99 and
\* retention table, whatever state earlier use left the generators in.
C21_SameArgumentsSameResult ==
    \A i \in Ran, j \in Ran :
        (simRuns[i].request = simRuns[j].request /\ simRuns[i].premiums = simRuns[j].premiums)
            => /\ simRuns[i].result.var95 = simRuns[j].result.var95
               /\ simRuns[i].result.var99 = simRuns[j].result.var99
               /\ simRuns[i].result.tailvar99 = simRuns[j].result.tailvar99
               /\ simRuns[i].result.retention_table = simRuns[j].result.retention_table

\* Two runs with the same arguments on the same history, the generators
\* having been left in different states before each, in a stream whose draws
\* differ.
C21_TwoRunsAfterDifferentUse ==
    /\ Ran = {1, 2}
    /\ simRuns[1].request = simRuns[2].request
    /\ simRuns[1].premiums = simRuns[2].premiums
    /\ simRuns[1].premiums # <<>>
    /\ simRuns[1].np_before # simRuns[2].np_before
    /\ \E k \in 1..StreamLen : seedStream[k] # seedStream[1]

\* A request names a scenario count above the limit, an empty retention
\* grid, a retention of 0 or less, no rate_on_line or no load, a rate_on_line
\* outside (0, 1] or a load outside [0, 1].
OutOfRange(req) ==
    \/ req.scenario_count > MaxCount
    \/ Len(req.retention_grid) = 0
    \/ \E i \in 1..Len(req.retention_grid) : req.retention_grid[i] <= 0
    \/ DOMAIN req.reinsurance_params # {"rate_on_line", "load"}
    \/ ~(req.reinsurance_params.rate_on_line > 0 /\ req.reinsurance_params.rate_on_line <= 100)
    \/ ~(req.reinsurance_params.load >= 0 /\ req.reinsurance_params.load <= 100)

\* C22: a simulation request out of range is rejected with an error status,
\* run_portfolio_simulation does not run for it, and no idempotency row is
\* stored for it.
C22_OutOfRangeRejected ==
    \A i \in 1..Len(simRuns) :
        OutOfRange(simRuns[i].request) =>
            /\ simRuns[i].status \in {400, 422}
            /\ ~simRuns[i].ran
            /\ \A e \in idem : e.response_id # i

\* Without the status: no run and no stored row for a request out of range.
OutOfRangeNeverRuns ==
    \A i \in 1..Len(simRuns) :
        OutOfRange(simRuns[i].request) => ~simRuns[i].ran /\ \A e \in idem : e.response_id # i

\* C24: every scenario of a run that generated its scenarios from historical
\* premiums is 0 or more.
C24_HistoricalScenariosNonNegative ==
    \A i \in Ran :
        simRuns[i].premiums # <<>> =>
            \A k \in 1..Len(simRuns[i].result.scenarios) : simRuns[i].result.scenarios[k] >= 0

(***************************************************************************)
(* The carrier loop of create_quote when a carrier cannot be evaluated     *)
(* (routers/quotes.py lines 161-253, cache.py lines 58-109).  faults says  *)
(* what is wrong with each carrier's configuration and priced is the set   *)
(* of products the pricing section of the seed data holds.                 *)
(***************************************************************************)
\* appetite_malformed: json.loads(appetite_json) raises; not_in_seed: the
\* seed data has no carrier of this id; no_curve_ref: it has no
\* pricing_curve_ref.
CarrierFaults == {"none", "appetite_malformed", "not_in_seed", "no_curve_ref"}

PricedProducts == {Products, {"ppi"}, {}}

\* What the try block does for one carrier: it raises, leaves by continue
\* after a failed appetite or capacity check, or appends an evaluation.
CarrierOutcome(c, product_code, rd, policyholder, risk, capacities, faults, priced) ==
    IF faults[c] = "appetite_malformed" THEN "raised"
    ELSE IF ~(AppetiteOk(c, product_code, rd, policyholder, risk.risk_band) /\ CapacityOk(capacities[c]))
         THEN "rejected"
    ELSE IF faults[c] \in {"not_in_seed", "no_curve_ref"} THEN "raised"
    ELSE IF product_code \notin priced THEN "raised"
    ELSE "priced"

\* An error ends the loop: no later carrier is evaluated.
ErrorEndsLoop(rest) == <<>>

\* except Exception: continue, the loop goes on with the remaining carriers.
ErrorSkipsCarrier(rest) == rest

\* The loop of create_quote over carrier_list from position i.
RECURSIVE EvaluateCarriersFrom(_, _, _, _, _, _, _, _)
EvaluateCarriersFrom(i, product_code, rd, policyholder, risk, capacities, faults, priced) ==
    IF i > Len(CarrierOrder) THEN <<>>
    ELSE LET c == CarrierOrder[i]
             rest == EvaluateCarriersFrom(i + 1, product_code, rd, policyholder, risk,
                                          capacities, faults, priced)
             outcome == CarrierOutcome(c, product_code, rd, policyholder, risk, capacities,
                                       faults, priced)
         IN  IF outcome = "priced"
             THEN <<Evaluation(c, product_code, rd, risk, capacities[c])>> \o rest
             ELSE IF outcome = "raised" THEN ErrorSkipsCarrier(rest)
             ELSE rest

\* create_quote after the idempotency check on a configuration with faults.
CreateQuoteOn(req, ruleSeq, rows, limits, as_of_month, faults, priced) ==
    LET rd == RequestData(req)
        ph == QuotePolicyholder(req)
    IN
    IF req.product_code \notin Partner.products THEN [status |-> 400, rows |-> <<>>]
    ELSE IF ~QuoteFieldsPresent(req) THEN [status |-> 400, rows |-> <<>>]
    ELSE IF ComplianceBlocks(EvaluateRules(ruleSeq, req.product_code, rd, ph))
         THEN [status |-> 400, rows |-> <<>>]
    ELSE LET risk == RiskAssessment(req.product_code, rd, ph)
             evals == EvaluateCarriersFrom(1, req.product_code, rd, ph, risk,
                                           CarrierCapacities(rows, limits, as_of_month),
                                           faults, priced)
         IN  IF evals = <<>> THEN [status |-> 500, rows |-> <<>>]
             ELSE [status |-> 200,
                   rows |-> <<QuoteRow(req, risk, evals[SelectedIndex(evals)],
                                       EvaluateRules(ruleSeq, req.product_code, rd, ph))>>]

FaultRequests ==
    {MkShipping(v, "standard", st) : v \in {1000, 60000}, st \in {"CA", "AK"}}
    \cup {MkPpi(1000, t, 30, 12, "CA") : t \in {6, 18}}

QuoteOnFaultsCall(req, faults, priced) ==
    /\ callIn = NoCall
    /\ callIn' = <<"create_quote_on", req, faults, priced>>
    /\ LET out == CreateQuoteOn(req, rules, capRows, limit, month, faults, priced) IN
       /\ callOut' = <<out>>
       /\ quotes' = quotes \o out.rows
    /\ capRows' = RowsAfterQuote(capRows, limit, month)
    /\ UNCHANGED <<month, limit, policies, ledger, idem, bind, nreq, reserveCalls, reserveOk,
                   simVars, rules, evalIn, evalOut, configFile, engine>>

NextFaults ==
    \E req \in FaultRequests, faults \in [Carriers -> CarrierFaults], priced \in PricedProducts :
        QuoteOnFaultsCall(req, faults, priced)

SpecFaults == InitReserve /\ [][NextFaults]_vars

\* The carriers whose configuration is sound and that pass the appetite and
\* capacity checks for the request of the call.
SoundAndEligible ==
    LET req == callIn[2]
        risk == RiskAssessment(req.product_code, RequestData(req), QuotePolicyholder(req))
    IN  {c \in Carriers :
            /\ callIn[3][c] = "none"
            /\ req.product_code \in callIn[4]
            /\ AppetiteOk(c, req.product_code, RequestData(req), QuotePolicyholder(req),
                          risk.risk_band)
            /\ CarrierCapacities(capRows, limit, month)[c] > 0}

FaultEvaluation(c) ==
    LET req == callIn[2]
        risk == RiskAssessment(req.product_code, RequestData(req), QuotePolicyholder(req))
    IN  Evaluation(c, req.product_code, RequestData(req), risk,
                   CarrierCapacities(capRows, limit, month)[c])

\* C25: a carrier whose evaluation raises is the only one left out: a request
\* that reaches the carrier loop is quoted exactly when some sound carrier
\* passes the checks, and the quote names a sound, eligible carrier that no
\* other sound, eligible carrier sorts before.
C25_FailingCarrierOnlyExcluded ==
    (callIn # NoCall /\ callIn[1] = "create_quote_on" /\ callOut[1].status # 400) =>
        /\ SoundAndEligible = {} => callOut[1].status = 500 /\ callOut[1].rows = <<>>
        /\ SoundAndEligible # {} =>
              /\ callOut[1].status = 200
              /\ callOut[1].rows[1].carrier_suggestion \in SoundAndEligible
              /\ \A c \in SoundAndEligible :
                    ~SortsBefore(FaultEvaluation(c),
                                 FaultEvaluation(callOut[1].rows[1].carrier_suggestion))

\* The first carrier passes every check and fails in pricing; the second one
\* is quoted.
C25_SecondCarrierQuoted ==
    /\ callIn # NoCall /\ callIn[1] = "create_quote_on"
    /\ callIn[3]["c1"] \in {"not_in_seed", "no_curve_ref"}
    /\ callOut[1].status = 200
    /\ AppetiteOk("c1", callIn[2].product_code, RequestData(callIn[2]),
                  QuotePolicyholder(callIn[2]), callOut[1].rows[1].risk_band)
    /\ CarrierCapacities(capRows, limit, month)["c1"] > 0
    /\ callOut[1].rows[1].carrier_suggestion = "c2"

(***************************************************************************)
(* The three writes of a bind and the capacity counters (Spec).            *)
(***************************************************************************)
\* The policies created for a carrier in a month.
PoliciesOf(k) ==
    {i \in 1..Len(policies) : policies[i].carrier_id = k[1] /\ policies[i].effective_month = k[2]}

\* The units taken from the counter of a key.
Consumed(k) == limit[k[1]] - Remaining(capRows, k)

\* No bind request is between its first query and its answer.
NoBindInProgress == \A w \in Workers : bind[w].pc \in {"idle", "answered"}

\* C26: whenever no bind is in progress, the units taken from the counter of
\* every carrier and month equal the number of policies created for that
\* carrier in that month.
C26_ConsumedEqualsPolicies ==
    NoBindInProgress =>
        \A k \in CapacityKeys : Consumed(k) = Cardinality(PoliciesOf(k))

\* C27: in every reachable state, the states between the commits of a bind
\* included, every consumed capacity unit has its policy and every policy
\* has its ledger entry.
C27_BindWritesAllOrNothing ==
    /\ \A k \in CapacityKeys : Consumed(k) <= Cardinality(PoliciesOf(k))
    /\ \A i \in 1..Len(policies) : LedgerOf(i) # {}

\* C28: two bind requests in progress with the same idempotency key and the
\* same quote_id never hold different policies, and none of them is answered
\* with an error once the other has stored its answer.
C28_SameKeyOnePolicy ==
    \A w, v \in Workers :
        (/\ w # v
         /\ bind[w].key # NoKey /\ bind[w].key = bind[v].key
         /\ bind[w].quote_id # 0 /\ bind[w].quote_id = bind[v].quote_id
         /\ bind[w].policy_id # 0 /\ bind[v].policy_id # 0)
            => bind[w].policy_id = bind[v].policy_id

\* The position of a carrier in carrier_list.
ListPosition(c) == CHOOSE i \in 1..Len(CarrierOrder) : CarrierOrder[i] = c

\* C29: within one quote the risk multiplier is one value of at most 1.40 for
\* every carrier, so the margin rises strictly with the premium and two
\* margins are equal only for equal premiums; the carrier of the quote is an
\* eligible carrier of the highest premium, the first of them in carrier list
\* order.
C29_HighestPremiumSelected ==
    (callIn # NoCall /\ callIn[1] = "create_quote" /\ callOut[1].status = 200) =>
        LET row == callOut[1].rows[1]
            selected == row.carrier_suggestion
        IN  /\ row.risk_multiplier = RoutedRisk.risk_multiplier
            /\ row.price_breakdown.risk_mult = RoutedRisk.risk_multiplier
            /\ RoutedRisk.risk_multiplier <= 140
            /\ \A c, d \in Survivors :
                  /\ OfferedPremium(c) < OfferedPremium(d) => OfferedMargin(c) < OfferedMargin(d)
                  /\ OfferedMargin(c) = OfferedMargin(d) => OfferedPremium(c) = OfferedPremium(d)
            /\ selected \in Survivors
            /\ row.premium_cents = OfferedPremium(selected)
            /\ \A c \in Survivors :
                  /\ OfferedPremium(c) <= OfferedPremium(selected)
                  /\ OfferedPremium(c) = OfferedPremium(selected) =>
                        ListPosition(selected) <= ListPosition(c)

\* Both carriers are eligible, the second one in the list asks the higher
\* premium and is the carrier of the quote.
C29_LaterCarrierOfHigherPremium ==
    /\ callIn # NoCall /\ callIn[1] = "create_quote" /\ callOut[1].status = 200
    /\ Survivors = Carriers
    /\ OfferedPremium("c1") < OfferedPremium("c2")
    /\ callOut[1].rows[1].carrier_suggestion = "c2"

\* Evaluating the criteria of the rule on the context raises: the rule is of
\* the product and names a numeric criterion whose field holds None.
CriteriaRaise(rule, product_code, context) ==
    /\ rule.applies_to = product_code
    /\ \E n \in rule.has \cap NumericCriteria : GetNum(CriterionField(n, context)) = NoneVal

\* C30: evaluate_rules returns a result whatever rule raises while its
\* criteria are evaluated: a rule that raises is not among the rules applied,
\* and the result is the one the rule file gives without the rules that
\* raise, so every other rule is still evaluated.
C30_RaisingRuleSkipped ==
    evalOut # NoEval =>
        LET context == BuildContext(evalIn.product_code, evalIn.request_data, evalIn.policyholder)
            others == SelectSeq(rules, LAMBDA r : ~CriteriaRaise(r, evalIn.product_code, context))
        IN  /\ evalOut.decision \in {"allow", "block"}
            /\ \A i \in 1..Len(rules) :
                  CriteriaRaise(rules[i], evalIn.product_code, context) =>
                     \A j \in 1..Len(evalOut.rules_applied) : evalOut.rules_applied[j] # rules[i].id
            /\ evalOut = EvaluateRules(others, evalIn.product_code, evalIn.request_data,
                                       evalIn.policyholder)

\* The policyholder's unset age replaced the age of the request, a rule
\* raised on it, and a rule after it in the file applied.
C30_RuleAfterRaisingRuleApplied ==
    /\ evalOut # NoEval
    /\ evalIn.policyholder.age = NoneVal /\ evalIn.request_data.age > 0
    /\ LET context == BuildContext(evalIn.product_code, evalIn.request_data, evalIn.policyholder)
       IN  \E i, j \in 1..Len(rules) :
              /\ i < j
              /\ CriteriaRaise(rules[i], evalIn.product_code, context)
              /\ \E a \in 1..Len(evalOut.rules_applied) : evalOut.rules_applied[a] = rules[j].id

====
